---------------------------- MODULE Spec2Model ----------------------------
(***************************************************************************)
(* Models of the programs of the repository.                               *)
(*                                                                         *)
(* The graph program of src/Act7/main.cpp (second translation unit of the  *)
(* file, lines 246-641): Kruskal minimum spanning tree, exact bitmask-DP   *)
(* tour, Edmonds-Karp maximum flow and the coordinate listing, all run by  *)
(* one main() inside one try block.  The tasks are also run on their own   *)
(* (SpecMst, SpecTour, SpecFlow), and the call tsp(1, 0) is also run call   *)
(* by call with its stack of running calls (SpecMemo).                      *)
(*                                                                         *)
(* C++ arrays are 0-based and are modelled as functions over 0..N-1.       *)
(* The local arrays edges[], result[] and path[] are modelled as           *)
(* sequences (1-based): edges[k] of the code is edges[k+1] here, and       *)
(* edgeCount, e and pathIdx are the lengths of those sequences.            *)
(*                                                                         *)
(* The other programs (merge sort of src/Act1, pattern search of the first *)
(* translation unit of src/Act7, change making of src/unnamed/part_001,    *)
(* duplicate detection of src/Act3, the two shortest-path programs of      *)
(* src/Act4 and src/unnamed/part_000) are separate executables.  Each has  *)
(* its own variables and its own specification; while one program runs,    *)
(* the variables of the others stay at their idle values.                  *)
(***************************************************************************)
EXTENDS Integers, Sequences, FiniteSets, TLC

VARIABLES
    N,               \* number of nodes read from the input
    distanceMatrix,  \* distanceMatrix[i][j]
    capacityMatrix,  \* capacityMatrix[i][j]
    coords,          \* coords[i] = <<x, y>>
    pc,              \* position of main()
    parent,          \* union-find parent array
    rankArr,         \* union-find rank array
    edges,           \* candidate edges, edgeCount = Len(edges)
    i,               \* loop index of the Kruskal accept loop
    result,          \* accepted edges, e = Len(result)
    DP,              \* DP[mask][pos]
    VISITED_ALL,     \* (1 << N) - 1
    minCost,         \* value returned by tsp(1, 0)
    mask,            \* reconstruction walk: visited set
    pos,             \* reconstruction walk: current city
    path,            \* reconstruction walk: path, pathIdx = Len(path)
    tspStack,        \* the calls of tsp whose for loop is running, innermost last
    tspCall,         \* arguments of the call of tsp being entered or just returned
    tspRet,          \* value returned by the call of tsp that has just returned
    residual,        \* residual[u][v]
    parentFlow,      \* BFS parent pointers
    maxFlow,         \* running total flow
    out,             \* what was written to cout, in order
    err              \* message written to cerr by the catch block, "" if none

\* ---- src/Act1/main.cpp: merge sort ----
VARIABLES
    numElements,     \* number of elements read
    numbers,         \* numbers[0..numElements-1]; an element is [key, tag]
    numbersRead,     \* the elements in the order they were read
    sortPc,          \* position of main()
    sortOut          \* the values printed, in order

\* ---- src/Act7/main.cpp, first translation unit: KMP search ----
VARIABLES
    text,            \* the text searched, a sequence of character codes
    pattern,         \* the pattern, a sequence of character codes
    matchPos,        \* the variable pos of main(), passed by reference
    kmpFound,        \* value returned by KMPSearch
    kmpPc,           \* position of main()
    kmpOut           \* the line printed for the search

\* ---- src/unnamed/part_001: change making ----
VARIABLES
    numDenominations,
    denominations,   \* denominations[0..numDenominations-1]
    denominationsRead, \* the denominations in the order they were read
    productPrice,
    paymentAmount,
    coinPc,          \* position of main()
    coinOut          \* the coin counts printed by each call, in order

\* ---- src/Act3/main.cpp: duplicate detection ----
VARIABLES
    hashTable,       \* hashTable[0..HASH_TABLE_SIZE-1]
    inputLines,      \* the lines of standard input
    nextLine,        \* number of lines consumed by getline
    inputString,     \* the line being processed
    hashIndex,       \* probe position inside findStringInHashTable
    areAllStringsDistinct,
    hashPc,          \* position of main()
    hashOut          \* the line printed at the end

\* ---- src/Act4/main.cpp: Dijkstra and Floyd-Warshall ----
VARIABLES
    nodeCount,
    adjMatrix,       \* adjMatrix[i][j], -1 for no edge
    startNode,       \* loop variable of the Dijkstra part
    dijkstraOut,     \* lines printed by the Dijkstra part: <<start, dest, distance>>
    floydDistancesMatrix,
    intermediateNode,\* loop variable k of the Floyd part
    floydOut,        \* matrix printed by the Floyd part
    pathPc           \* position of main()

\* ---- src/unnamed/part_000: Dijkstra with a binary heap ----
VARIABLES
    adj,             \* adj[node]: the adjacency list, first edge first
    dist,
    heapVisited,     \* the array visited
    heap,            \* heap[1..]: nodes
    heapPos,         \* heapPos[node]: index in heap, -1 if never inserted
    heapSize,
    heapNode,        \* the local u of the main loop
    edge,            \* the edges of u still to be relaxed (edge == NULL is <<>>)
    extracted,       \* the nodes returned by extractMin, in order
    heapPc           \* position of main()

act7Vars == <<N, distanceMatrix, capacityMatrix, coords, pc, parent, rankArr,
              edges, i, result, DP, VISITED_ALL, minCost, mask, pos, path,
              tspStack, tspCall, tspRet, residual, parentFlow, maxFlow, out, err>>
sortVars == <<numElements, numbers, numbersRead, sortPc, sortOut>>
kmpVars  == <<text, pattern, matchPos, kmpFound, kmpPc, kmpOut>>
coinVars == <<numDenominations, denominations, denominationsRead, productPrice,
              paymentAmount, coinPc, coinOut>>
hashVars == <<hashTable, inputLines, nextLine, inputString, hashIndex,
              areAllStringsDistinct, hashPc, hashOut>>
pathVars == <<nodeCount, adjMatrix, startNode, dijkstraOut, floydDistancesMatrix,
              intermediateNode, floydOut, pathPc>>
heapVars == <<adj, dist, heapVisited, heap, heapPos, heapSize, heapNode, edge,
              extracted, heapPc>>

vars == <<act7Vars, sortVars, kmpVars, coinVars, hashVars, pathVars, heapVars>>

\* the variables of the programs other than the graph program
otherVars == <<sortVars, kmpVars, coinVars, hashVars, pathVars, heapVars>>

\* a program that is not running
SortIdle ==
    /\ numElements = 0 /\ numbers = <<>> /\ numbersRead = <<>>
    /\ sortPc = "off" /\ sortOut = <<>>
KmpIdle ==
    /\ text = <<>> /\ pattern = <<>> /\ matchPos = 0 /\ kmpFound = FALSE
    /\ kmpPc = "off" /\ kmpOut = <<>>
CoinIdle ==
    /\ numDenominations = 0 /\ denominations = <<>> /\ denominationsRead = <<>>
    /\ productPrice = 0 /\ paymentAmount = 0
    /\ coinPc = "off" /\ coinOut = <<>>
HashIdle ==
    /\ hashTable = <<>> /\ inputLines = <<>> /\ nextLine = 0
    /\ inputString = <<>> /\ hashIndex = 0 /\ areAllStringsDistinct = TRUE
    /\ hashPc = "off" /\ hashOut = <<>>
PathIdle ==
    /\ nodeCount = 0 /\ adjMatrix = <<>> /\ startNode = 0 /\ dijkstraOut = <<>>
    /\ floydDistancesMatrix = <<>> /\ intermediateNode = 0 /\ floydOut = <<>>
    /\ pathPc = "off"
HeapIdle ==
    /\ adj = <<>> /\ dist = <<>> /\ heapVisited = <<>> /\ heap = <<>>
    /\ heapPos = <<>> /\ heapSize = 0 /\ heapNode = 0 /\ edge = <<>>
    /\ extracted = <<>> /\ heapPc = "off"
OthersIdle == SortIdle /\ KmpIdle /\ CoinIdle /\ HashIdle /\ PathIdle /\ HeapIdle

inputVars == <<N, distanceMatrix, capacityMatrix, coords>>
mstVars   == <<parent, rankArr, edges, i, result>>
callVars  == <<tspStack, tspCall, tspRet>>
tspVars   == <<DP, VISITED_ALL, minCost, mask, pos, path, callVars>>
flowVars  == <<residual, parentFlow, maxFlow>>

----------------------------------------------------------------------------
(* Bounds of the model *)

MaxN == 3       \* largest N of the enumerated inputs
MaxW == 2       \* distances of the enumerated inputs are in 0..MaxW
MaxCap == 2     \* capacities of the enumerated inputs are in 0..MaxCap

(* Program constants *)

MAX_N == 16
INT_MAX == 2147483647

Nodes(n) == 0 .. n - 1

Pow2(k) == 2 ^ k

\* (mask & (1 << city)) != 0
HasBit(m, city) == (m \div Pow2(city)) % 2 = 1

\* mask | (1 << city)
SetBit(m, city) == IF HasBit(m, city) THEN m ELSE m + Pow2(city)

Min(a, b) == IF a < b THEN a ELSE b

\* 'A' + k
Letters == <<"A", "B", "C", "D", "E", "F", "G", "H",
             "I", "J", "K", "L", "M", "N", "O", "P">>
NodeLabel(k) == Letters[k + 1]

----------------------------------------------------------------------------
(* Inputs: what the loading part of main() accepts (1 <= N <= MAX_N, every  *)
(* distance and capacity >= 0), restricted to small enumerable families.    *)

\* Upper triangle free in 0..MaxW; the lower triangle is the upper one
\* shifted by `skew` modulo MaxW+1 (skew = 0: symmetric); the diagonal is skew.
UpperPairs(n) == {p \in Nodes(n) \X Nodes(n) : p[1] < p[2]}

DistFrom(n, up, skew) ==
    [a \in Nodes(n) |-> [b \in Nodes(n) |->
        IF a < b THEN up[<<a, b>>]
        ELSE IF a > b THEN (up[<<b, a>>] + skew) % (MaxW + 1)
        ELSE skew]]

DistInputs(n, skews) ==
    {DistFrom(n, up, skew) : up \in [UpperPairs(n) -> 0 .. MaxW], skew \in skews}

\* The 4-node scenario of the specification.
ScenarioDistRows == << <<0, 10, 15, 20>>, <<10, 0, 35, 25>>,
                       <<15, 35, 0, 30>>, <<20, 25, 30, 0>> >>
ScenarioCapRows == << <<0, 10, 10, 0>>, <<0, 0, 0, 10>>,
                      <<0, 0, 0, 10>>, <<0, 0, 0, 0>> >>
ScenarioN == Len(ScenarioDistRows)
MatrixOfRows(rows) ==
    [a \in Nodes(Len(rows)) |-> [b \in Nodes(Len(rows)) |-> rows[a + 1][b + 1]]]
ScenarioDist == MatrixOfRows(ScenarioDistRows)
ScenarioCap == MatrixOfRows(ScenarioCapRows)

\* Capacities: the entries u -> v with u # v, u not the sink and v not the
\* source are free in 0..MaxCap; every other entry (diagonal, into the source,
\* out of the sink) is `rest`.
FreeCapPairs(n) ==
    {p \in Nodes(n) \X Nodes(n) : p[1] # p[2] /\ p[1] # n - 1 /\ p[2] # 0}

CapFrom(n, free, rest) ==
    [a \in Nodes(n) |-> [b \in Nodes(n) |->
        IF <<a, b>> \in FreeCapPairs(n) THEN free[<<a, b>>] ELSE rest]]

CapInputs(n) ==
    {CapFrom(n, free, rest) : free \in [FreeCapPairs(n) -> 0 .. MaxCap],
                              rest \in {0, MaxCap}}

\* 4-node capacities with every free entry 0 or the scenario's capacity;
\* ScenarioCap is one of them.
ScenarioCaps ==
    {[a \in Nodes(ScenarioN) |-> [b \in Nodes(ScenarioN) |->
        IF <<a, b>> \in on THEN ScenarioCapRows[1][2] ELSE 0]] :
     on \in SUBSET FreeCapPairs(ScenarioN)}

\* Uniform capacities, used where the capacity matrix only has to be there.
CapUniform(n) ==
    {[a \in Nodes(n) |-> [b \in Nodes(n) |-> k]] : k \in {0, MaxCap}}

CoordsOf(n) == [a \in Nodes(n) |-> <<a, 2 * a + 1>>]

ZeroMatrix(n) == [a \in Nodes(n) |-> [b \in Nodes(n) |-> 0]]
ZeroArray(n)  == [a \in Nodes(n) |-> 0]

\* Globals are zero-initialised; locals are written before they are read.
Fresh(n) ==
    /\ parent = ZeroArray(n)
    /\ rankArr = ZeroArray(n)
    /\ edges = <<>>
    /\ i = 0
    /\ result = <<>>
    /\ DP = [m \in 0 .. Pow2(n) - 1 |-> ZeroArray(n)]
    /\ VISITED_ALL = 0
    /\ minCost = 0
    /\ mask = 0
    /\ pos = 0
    /\ path = <<>>
    /\ tspStack = <<>>
    /\ tspCall = [mask |-> 0, pos |-> 0]
    /\ tspRet = 0
    /\ residual = ZeroMatrix(n)
    /\ parentFlow = ZeroArray(n)
    /\ maxFlow = 0
    /\ out = <<>>
    /\ err = ""

Loaded(n, d, c) ==
    /\ n >= 1 /\ n <= MAX_N
    /\ N = n
    /\ distanceMatrix = d
    /\ capacityMatrix = c
    /\ coords = CoordsOf(n)
    /\ Fresh(n)

\* State of main() after fin.close(): the whole program.
Init ==
    /\ OthersIdle
    /\ pc = "mst_init"
    /\ \/ \E n \in 1 .. MaxN : \E d \in DistInputs(n, {0, 1}) : \E c \in CapUniform(n) :
             Loaded(n, d, c)
       \/ Loaded(ScenarioN, ScenarioDist, ScenarioCap)

----------------------------------------------------------------------------
(* Task 1: Kruskal *)

\* Variant of EnumerateFrom without the test distanceMatrix[i][j] != 0.
RECURSIVE EnumerateFrom_AllPairs(_, _, _, _, _)
EnumerateFrom_AllPairs(n, d, a, b, acc) ==
    IF a >= n THEN acc
    ELSE IF b >= n THEN EnumerateFrom_AllPairs(n, d, a + 1, a + 2, acc)
    ELSE EnumerateFrom_AllPairs(n, d, a, b + 1,
            Append(acc, [u |-> a, v |-> b, weight |-> d[a][b]]))

RECURSIVE EnumerateFrom(_, _, _, _, _)
EnumerateFrom(n, d, a, b, acc) ==
    IF a >= n THEN acc
    ELSE IF b >= n THEN EnumerateFrom(n, d, a + 1, a + 2, acc)
    ELSE EnumerateFrom(n, d, a, b + 1,
            IF d[a][b] # 0
            THEN Append(acc, [u |-> a, v |-> b, weight |-> d[a][b]])
            ELSE acc)

EnumerateEdges(n, d) == EnumerateFrom(n, d, 0, 1, <<>>)

\* Variant of MinIdxFrom with the comparison reversed (> for <).
RECURSIVE MinIdxFrom_Reversed(_, _, _)
MinIdxFrom_Reversed(es, j, minIdx) ==
    IF j > Len(es) THEN minIdx
    ELSE MinIdxFrom_Reversed(es, j + 1,
            IF es[j].weight > es[minIdx].weight THEN j ELSE minIdx)

\* inner loop of the selection sort: index of the first minimum of es[k..]
RECURSIVE MinIdxFrom(_, _, _)
MinIdxFrom(es, j, minIdx) ==
    IF j > Len(es) THEN minIdx
    ELSE MinIdxFrom(es, j + 1,
            IF es[j].weight < es[minIdx].weight THEN j ELSE minIdx)

\* Variant of SwapAt that loses the element saved in temp.
SwapAt_NoTemp(es, a, b) == [es EXCEPT ![a] = es[b]]

SwapAt(es, a, b) == [es EXCEPT ![a] = es[b], ![b] = es[a]]

RECURSIVE SortFrom(_, _)
SortFrom(es, k) ==
    IF k >= Len(es) THEN es
    ELSE LET m == MinIdxFrom(es, k + 1, k)
         IN SortFrom(IF m # k THEN SwapAt(es, k, m) ELSE es, k + 1)

SelectionSort(es) == SortFrom(es, 1)

RECURSIVE findSet(_, _)
findSet(u, par) ==
    IF par[u] # u
    THEN LET r == findSet(par[u], par)
         IN [root |-> r.root, parent |-> [r.parent EXCEPT ![u] = r.root]]
    ELSE [root |-> u, parent |-> par]

\* Variant of unionSets that leaves the rank alone when the ranks are equal.
unionSets_NoRankBump(u, v, par, rk) ==
    IF rk[u] < rk[v] THEN [parent |-> [par EXCEPT ![u] = v], rankArr |-> rk]
    ELSE [parent |-> [par EXCEPT ![v] = u], rankArr |-> rk]

unionSets(u, v, par, rk) ==
    IF rk[u] < rk[v] THEN [parent |-> [par EXCEPT ![u] = v], rankArr |-> rk]
    ELSE IF rk[u] > rk[v] THEN [parent |-> [par EXCEPT ![v] = u], rankArr |-> rk]
    ELSE [parent |-> [par EXCEPT ![v] = u], rankArr |-> [rk EXCEPT ![u] = rk[u] + 1]]

\* catch block: the message goes to cerr and main returns 1
Throw(msg) ==
    /\ pc' = "error"
    /\ err' = msg

EdgeLine(ed) == <<"arc", NodeLabel(ed.u), NodeLabel(ed.v)>>

RECURSIVE EdgeLines(_)
EdgeLines(es) ==
    IF es = <<>> THEN <<>> ELSE <<EdgeLine(Head(es))>> \o EdgeLines(Tail(es))

\* Variant of KruskalExit without the check e != N - 1.
KruskalExit_NoCheck ==
    /\ pc = "mst_loop"
    /\ ~(i < Len(edges) /\ Len(result) < N - 1)
    /\ out' = out \o EdgeLines(result)
    /\ pc' = "tsp_init"
    /\ UNCHANGED err
    /\ UNCHANGED <<otherVars, inputVars, mstVars, tspVars, flowVars>>

MstInit ==
    /\ pc = "mst_init"
    /\ parent' = [a \in Nodes(N) |-> a]
    /\ rankArr' = [a \in Nodes(N) |-> 0]
    /\ pc' = "mst_enum"
    /\ UNCHANGED <<otherVars, inputVars, edges, i, result, tspVars, flowVars, out, err>>

MstEnumerate ==
    /\ pc = "mst_enum"
    /\ edges' = EnumerateEdges(N, distanceMatrix)
    /\ IF Len(edges') = 0
       THEN Throw("No edges found in the distance matrix. The graph is disconnected.")
       ELSE pc' = "mst_sort" /\ UNCHANGED err
    /\ UNCHANGED <<otherVars, inputVars, parent, rankArr, i, result, tspVars, flowVars, out>>

MstSort ==
    /\ pc = "mst_sort"
    /\ edges' = SelectionSort(edges)
    /\ result' = <<>>
    /\ i' = 0
    /\ pc' = "mst_loop"
    /\ UNCHANGED <<otherVars, inputVars, parent, rankArr, tspVars, flowVars, out, err>>

\* Variant of KruskalStep without the test setU != setV.
KruskalStep_AcceptsAll ==
    /\ pc = "mst_loop"
    /\ i < Len(edges) /\ Len(result) < N - 1
    /\ LET ed == edges[i + 1]
           fu == findSet(ed.u, parent)
           fv == findSet(ed.v, fu.parent)
           un == unionSets(fu.root, fv.root, fv.parent, rankArr)
       IN /\ result' = Append(result, ed)
          /\ parent' = un.parent
          /\ rankArr' = un.rankArr
    /\ i' = i + 1
    /\ UNCHANGED <<otherVars, inputVars, pc, edges, tspVars, flowVars, out, err>>

KruskalStep ==
    /\ pc = "mst_loop"
    /\ i < Len(edges) /\ Len(result) < N - 1
    /\ LET ed == edges[i + 1]
           fu == findSet(ed.u, parent)
           fv == findSet(ed.v, fu.parent)
       IN IF fu.root # fv.root
          THEN LET un == unionSets(fu.root, fv.root, fv.parent, rankArr)
               IN /\ result' = Append(result, ed)
                  /\ parent' = un.parent
                  /\ rankArr' = un.rankArr
          ELSE /\ parent' = fv.parent
               /\ UNCHANGED <<result, rankArr>>
    /\ i' = i + 1
    /\ UNCHANGED <<otherVars, inputVars, pc, edges, tspVars, flowVars, out, err>>

KruskalExit ==
    /\ pc = "mst_loop"
    /\ ~(i < Len(edges) /\ Len(result) < N - 1)
    /\ IF Len(result) # N - 1
       THEN /\ Throw("The graph is disconnected; cannot form a spanning tree.")
            /\ UNCHANGED out
       ELSE /\ out' = out \o EdgeLines(result)
            /\ pc' = "tsp_init"
            /\ UNCHANGED err
    /\ UNCHANGED <<otherVars, inputVars, mstVars, tspVars, flowVars>>

----------------------------------------------------------------------------
(* Task 2: exact tour by bitmask DP.  tsp reads and writes the global DP     *)
(* table: the table is threaded through the calls and returned with the      *)
(* value.  `thrown` is the runtime_error of tsp.  The enumerated distances   *)
(* are far below INT_MAX, so no sum leaves the range of int.                 *)

MsgNoPath == "No valid path found in TSP."
MsgNoNextCity == "Failed to find the next city in TSP route."

RECURSIVE tsp(_, _, _)
RECURSIVE TspLoop(_, _, _, _, _, _)

\* the for loop of tsp, from `city` on
TspLoop(m, p, city, ans, found, dp) ==
    IF city >= N THEN [ans |-> ans, found |-> found, DP |-> dp, thrown |-> FALSE]
    ELSE IF ~HasBit(m, city)
    THEN LET r == tsp(SetBit(m, city), city, dp)
             newAns == distanceMatrix[p][city] + r.val
         IN IF r.thrown
            THEN [ans |-> ans, found |-> found, DP |-> r.DP, thrown |-> TRUE]
            ELSE IF newAns < ans
                 THEN TspLoop(m, p, city + 1, newAns, TRUE, r.DP)
                 ELSE TspLoop(m, p, city + 1, ans, found, r.DP)
    ELSE TspLoop(m, p, city + 1, ans, found, dp)

\* Variant of tsp whose base case forgets the leg back to node 0.
tsp_NoReturnLeg(m, p, dp) ==
    IF m = VISITED_ALL
    THEN [val |-> 0, DP |-> dp, thrown |-> FALSE]
    ELSE IF dp[m][p] # -1
    THEN [val |-> dp[m][p], DP |-> dp, thrown |-> FALSE]
    ELSE LET l == TspLoop(m, p, 0, INT_MAX, FALSE, dp)
         IN IF l.thrown \/ ~l.found
            THEN [val |-> 0, DP |-> l.DP, thrown |-> TRUE]
            ELSE [val |-> l.ans, DP |-> [l.DP EXCEPT ![m][p] = l.ans],
                  thrown |-> FALSE]

tsp(m, p, dp) ==
    IF m = VISITED_ALL
    THEN [val |-> distanceMatrix[p][0], DP |-> dp, thrown |-> FALSE]
    ELSE IF dp[m][p] # -1
    THEN [val |-> dp[m][p], DP |-> dp, thrown |-> FALSE]
    ELSE LET l == TspLoop(m, p, 0, INT_MAX, FALSE, dp)
         IN IF l.thrown \/ ~l.found
            THEN [val |-> 0, DP |-> l.DP, thrown |-> TRUE]
            ELSE [val |-> l.ans, DP |-> [l.DP EXCEPT ![m][p] = l.ans],
                  thrown |-> FALSE]

\* Variant of BestCityFrom that compares DP[newMask][city] alone.
RECURSIVE BestCityFrom_NoLeg(_, _, _)
BestCityFrom_NoLeg(city, bestCity, bestCost) ==
    IF city >= N THEN bestCity
    ELSE IF ~HasBit(mask, city)
    THEN LET newMask == SetBit(mask, city)
             currentCost == DP[newMask][city]
         IN IF currentCost < bestCost
            THEN BestCityFrom_NoLeg(city + 1, city, currentCost)
            ELSE BestCityFrom_NoLeg(city + 1, bestCity, bestCost)
    ELSE BestCityFrom_NoLeg(city + 1, bestCity, bestCost)

\* Variant of BestCityFrom that skips a city whose DP entry is still -1.
RECURSIVE BestCityFrom_SkipsUnset(_, _, _)
BestCityFrom_SkipsUnset(city, bestCity, bestCost) ==
    IF city >= N THEN bestCity
    ELSE IF ~HasBit(mask, city) /\ DP[SetBit(mask, city)][city] # -1
    THEN LET newMask == SetBit(mask, city)
             currentCost == distanceMatrix[pos][city] + DP[newMask][city]
         IN IF currentCost < bestCost
            THEN BestCityFrom_SkipsUnset(city + 1, city, currentCost)
            ELSE BestCityFrom_SkipsUnset(city + 1, bestCity, bestCost)
    ELSE BestCityFrom_SkipsUnset(city + 1, bestCity, bestCost)

\* the for loop of the reconstruction walk, from `city` on
RECURSIVE BestCityFrom(_, _, _)
BestCityFrom(city, bestCity, bestCost) ==
    IF city >= N THEN bestCity
    ELSE IF ~HasBit(mask, city)
    THEN LET newMask == SetBit(mask, city)
             currentCost == distanceMatrix[pos][city] + DP[newMask][city]
         IN IF currentCost < bestCost
            THEN BestCityFrom(city + 1, city, currentCost)
            ELSE BestCityFrom(city + 1, bestCity, bestCost)
    ELSE BestCityFrom(city + 1, bestCity, bestCost)

\* Variant of TspInit that also clears the union-find arrays.
TspInit_ResetsParent ==
    /\ pc = "tsp_init"
    /\ DP' = [m \in 0 .. Pow2(N) - 1 |-> [c \in Nodes(N) |-> -1]]
    /\ VISITED_ALL' = Pow2(N) - 1
    /\ parent' = [a \in Nodes(N) |-> -1]
    /\ pc' = "tsp_solve"
    /\ UNCHANGED <<otherVars, inputVars, rankArr, edges, i, result, minCost, mask, pos, path,
                   callVars, flowVars, out, err>>

TspInit ==
    /\ pc = "tsp_init"
    /\ DP' = [m \in 0 .. Pow2(N) - 1 |-> [c \in Nodes(N) |-> -1]]
    /\ VISITED_ALL' = Pow2(N) - 1
    /\ pc' = "tsp_solve"
    /\ UNCHANGED <<otherVars, inputVars, mstVars, minCost, mask, pos, path, callVars,
                   flowVars, out, err>>

TspSolve ==
    /\ pc = "tsp_solve"
    /\ LET r == tsp(1, 0, DP)
       IN /\ DP' = r.DP
          /\ IF r.thrown
             THEN Throw(MsgNoPath) /\ UNCHANGED <<minCost, mask, pos, path>>
             ELSE /\ minCost' = r.val
                  /\ mask' = 1
                  /\ pos' = 0
                  /\ path' = <<0>>
                  /\ pc' = "tsp_walk"
                  /\ UNCHANGED err
    /\ UNCHANGED <<otherVars, inputVars, mstVars, VISITED_ALL, callVars, flowVars, out>>

ReconstructStep ==
    /\ pc = "tsp_walk"
    /\ mask # VISITED_ALL
    /\ LET bestCity == BestCityFrom(0, -1, INT_MAX)
       IN IF bestCity = -1
          THEN Throw(MsgNoNextCity) /\ UNCHANGED <<mask, pos, path>>
          ELSE /\ pos' = bestCity
               /\ mask' = SetBit(mask, bestCity)
               /\ path' = Append(path, bestCity)
               /\ UNCHANGED <<pc, err>>
    /\ UNCHANGED <<otherVars, inputVars, mstVars, DP, VISITED_ALL, minCost, callVars,
                   flowVars, out>>

ReconstructExit ==
    /\ pc = "tsp_walk"
    /\ mask = VISITED_ALL
    /\ path' = Append(path, 0)
    /\ out' = Append(out, <<"route", [k \in 1 .. Len(path') |-> NodeLabel(path'[k])]>>)
    /\ pc' = "flow_init"
    /\ UNCHANGED <<otherVars, inputVars, mstVars, DP, VISITED_ALL, minCost, mask, pos,
                   callVars, flowVars, err>>

----------------------------------------------------------------------------
(* Task 3: maximum flow from node 0 to node N-1 (BFS augmenting paths).      *)
(* bfs reads the global residual and writes the global parentFlow; visited   *)
(* and queue are its locals (queue as a sequence, back = Len(queue)).        *)

\* Variant of BfsScan that records u as parent of every v with residual
\* capacity, visited or not.
RECURSIVE BfsScan_AlwaysRecords(_, _, _, _, _, _)
BfsScan_AlwaysRecords(u, v, t, queue, visited, pf) ==
    IF v >= N
    THEN [found |-> FALSE, queue |-> queue, visited |-> visited, parentFlow |-> pf]
    ELSE IF ~visited[v] /\ residual[u][v] > 0
    THEN LET q2 == Append(queue, v)
             pf2 == [pf EXCEPT ![v] = u]
             vis2 == [visited EXCEPT ![v] = TRUE]
         IN IF v = t
            THEN [found |-> TRUE, queue |-> q2, visited |-> vis2, parentFlow |-> pf2]
            ELSE BfsScan_AlwaysRecords(u, v + 1, t, q2, vis2, pf2)
    ELSE BfsScan_AlwaysRecords(u, v + 1, t, queue, visited,
                               IF residual[u][v] > 0 THEN [pf EXCEPT ![v] = u] ELSE pf)

\* the loop `for (v = from; v < N; ++v)` of bfs for the dequeued node u
RECURSIVE BfsScan(_, _, _, _, _, _)
BfsScan(u, v, t, queue, visited, pf) ==
    IF v >= N
    THEN [found |-> FALSE, queue |-> queue, visited |-> visited, parentFlow |-> pf]
    ELSE IF ~visited[v] /\ residual[u][v] > 0
    THEN LET q2 == Append(queue, v)
             pf2 == [pf EXCEPT ![v] = u]
             vis2 == [visited EXCEPT ![v] = TRUE]
         IN IF v = t
            THEN [found |-> TRUE, queue |-> q2, visited |-> vis2, parentFlow |-> pf2]
            ELSE BfsScan(u, v + 1, t, q2, vis2, pf2)
    ELSE BfsScan(u, v + 1, t, queue, visited, pf)

\* the loop `while (front < back)` of bfs
RECURSIVE BfsLoop(_, _, _, _, _)
BfsLoop(t, front, queue, visited, pf) ==
    IF ~(front < Len(queue))
    THEN [found |-> FALSE, queue |-> queue, parentFlow |-> pf]
    ELSE LET r == BfsScan(queue[front + 1], 0, t, queue, visited, pf)
         IN IF r.found
            THEN [found |-> TRUE, queue |-> r.queue, parentFlow |-> r.parentFlow]
            ELSE BfsLoop(t, front + 1, r.queue, r.visited, r.parentFlow)

\* Variant of bfs that does not mark the source as visited.
bfs_SourceUnmarked(s, t) ==
    BfsLoop(t, 0, <<s>>,
            [a \in Nodes(N) |-> FALSE],
            [parentFlow EXCEPT ![s] = -1])

bfs(s, t) ==
    BfsLoop(t, 0, <<s>>,
            [a \in Nodes(N) |-> a = s],
            [parentFlow EXCEPT ![s] = -1])

\* Variant of Bottleneck that takes the capacity of the last edge only.
Bottleneck_SinkEdge(v, pathFlow, pf) ==
    IF v = 0 THEN pathFlow ELSE residual[pf[v]][v]

\* first walk from the sink: pathFlow = min(pathFlow, residual[u][v])
RECURSIVE Bottleneck(_, _, _)
Bottleneck(v, pathFlow, pf) ==
    IF v = 0 THEN pathFlow
    ELSE Bottleneck(pf[v], Min(pathFlow, residual[pf[v]][v]), pf)

\* Variant of Augmented that leaves the reverse edges alone.
RECURSIVE Augmented_NoReverse(_, _, _, _)
Augmented_NoReverse(v, res, pathFlow, pf) ==
    IF v = 0 THEN res
    ELSE LET u == pf[v]
             r1 == [res EXCEPT ![u][v] = res[u][v] - pathFlow]
         IN Augmented_NoReverse(u, r1, pathFlow, pf)

\* second walk from the sink: residual[u][v] -= pathFlow; residual[v][u] += pathFlow
RECURSIVE Augmented(_, _, _, _)
Augmented(v, res, pathFlow, pf) ==
    IF v = 0 THEN res
    ELSE LET u == pf[v]
             r1 == [res EXCEPT ![u][v] = res[u][v] - pathFlow]
             r2 == [r1 EXCEPT ![v][u] = r1[v][u] + pathFlow]
         IN Augmented(u, r2, pathFlow, pf)

\* Variant of FlowAugment that updates capacityMatrix together with residual.
FlowAugment_InPlace ==
    /\ pc = "flow_loop"
    /\ LET b == bfs(0, N - 1)
       IN /\ b.found
          /\ LET pathFlow == Bottleneck(N - 1, INT_MAX, b.parentFlow)
             IN /\ residual' = Augmented(N - 1, residual, pathFlow, b.parentFlow)
                /\ capacityMatrix' = residual'
                /\ maxFlow' = maxFlow + pathFlow
          /\ parentFlow' = b.parentFlow
    /\ UNCHANGED <<otherVars, N, distanceMatrix, coords, mstVars, tspVars, pc, out, err>>

\* Variant of FlowAugment that adds 1 to maxFlow for every path found.
FlowAugment_CountsPaths ==
    /\ pc = "flow_loop"
    /\ LET b == bfs(0, N - 1)
       IN /\ b.found
          /\ LET pathFlow == Bottleneck(N - 1, INT_MAX, b.parentFlow)
             IN /\ residual' = Augmented(N - 1, residual, pathFlow, b.parentFlow)
                /\ maxFlow' = maxFlow + 1
          /\ parentFlow' = b.parentFlow
    /\ UNCHANGED <<otherVars, inputVars, mstVars, tspVars, pc, out, err>>

\* Variant of FlowAugment whose pathFlow starts at 0 instead of INT_MAX.
FlowAugment_ZeroPathFlow ==
    /\ pc = "flow_loop"
    /\ LET b == bfs(0, N - 1)
       IN /\ b.found
          /\ LET pathFlow == Bottleneck(N - 1, 0, b.parentFlow)
             IN /\ residual' = Augmented(N - 1, residual, pathFlow, b.parentFlow)
                /\ maxFlow' = maxFlow + pathFlow
          /\ parentFlow' = b.parentFlow
    /\ UNCHANGED <<otherVars, inputVars, mstVars, tspVars, pc, out, err>>

FlowInit ==
    /\ pc = "flow_init"
    /\ residual' = [a \in Nodes(N) |-> [b \in Nodes(N) |-> capacityMatrix[a][b]]]
    /\ maxFlow' = 0
    /\ pc' = "flow_loop"
    /\ UNCHANGED <<otherVars, inputVars, mstVars, tspVars, parentFlow, out, err>>

\* one iteration of `while (bfs(0, N - 1))`
FlowAugment ==
    /\ pc = "flow_loop"
    /\ LET b == bfs(0, N - 1)
       IN /\ b.found
          /\ LET pathFlow == Bottleneck(N - 1, INT_MAX, b.parentFlow)
             IN /\ residual' = Augmented(N - 1, residual, pathFlow, b.parentFlow)
                /\ maxFlow' = maxFlow + pathFlow
          /\ parentFlow' = b.parentFlow
    /\ UNCHANGED <<otherVars, inputVars, mstVars, tspVars, pc, out, err>>

\* bfs(0, N - 1) returns false: the loop ends and the flow is printed
FlowExit ==
    /\ pc = "flow_loop"
    /\ LET b == bfs(0, N - 1)
       IN /\ ~b.found
          /\ parentFlow' = b.parentFlow
    /\ out' = Append(out, <<"flow", NodeLabel(N - 1), maxFlow>>)
    /\ pc' = "voronoi"
    /\ UNCHANGED <<otherVars, inputVars, mstVars, tspVars, residual, maxFlow, err>>

(* Task 4: coordinate listing *)
RECURSIVE PolygonLines(_)
PolygonLines(k) ==
    IF k >= N THEN <<>>
    ELSE << <<"polygon", k + 1, coords[k][1], coords[k][2]>> >> \o PolygonLines(k + 1)

Voronoi ==
    /\ pc = "voronoi"
    /\ out' = out \o PolygonLines(0)
    /\ pc' = "done"
    /\ UNCHANGED <<otherVars, inputVars, mstVars, tspVars, flowVars, err>>

----------------------------------------------------------------------------
(* Graph notions used to state the properties of Task 1 *)

MstPcs == {"mst_init", "mst_enum", "mst_sort", "mst_loop"}

MsgNoEdges == "No edges found in the distance matrix. The graph is disconnected."
MsgDisconnected == "The graph is disconnected; cannot form a spanning tree."

MstOver == pc \notin MstPcs
MstFailed == err \in {MsgNoEdges, MsgDisconnected}
MstReturned == MstOver /\ ~MstFailed
\* the state in which Task 1 has just returned its edge set
MstJustReturned == pc = "tsp_init"

SeqRange(s) == {s[k] : k \in 1 .. Len(s)}

\* pairs i<j with nonzero distance[i][j], as edges
Candidates(n, d) ==
    {[u |-> p[1], v |-> p[2], weight |-> d[p[1]][p[2]]] :
        p \in {q \in UpperPairs(n) : d[q[1]][q[2]] # 0}}

RECURSIVE Closure(_, _)
Closure(S, E) ==
    LET T == S \cup {x.v : x \in {y \in E : y.u \in S}}
               \cup {x.u : x \in {y \in E : y.v \in S}}
    IN IF T = S THEN S ELSE Closure(T, E)

Component(a, E) == Closure({a}, E)
ConnectsAll(n, E) == Component(0, E) = Nodes(n)
Acyclic(E) == \A x \in E : x.v \notin Component(x.u, E \ {x})

RECURSIVE SumWeights(_)
SumWeights(E) ==
    IF E = {} THEN 0
    ELSE LET x == CHOOSE y \in E : TRUE IN x.weight + SumWeights(E \ {x})

SpanningTrees(n, C) ==
    {T \in SUBSET C : Cardinality(T) = n - 1 /\ ConnectsAll(n, T)}

\* (u, v) is enumerated before (x, y) by the row-major loops
EnumeratedBefore(a, b) == a.u < b.u \/ (a.u = b.u /\ a.v < b.v)

Ascending(es) == \A k \in 1 .. Len(es) - 1 : es[k].weight <= es[k + 1].weight

Stable(es) ==
    \A k, l \in 1 .. Len(es) :
        (k < l /\ es[k].weight = es[l].weight) => EnumeratedBefore(es[k], es[l])

SortDone == pc \notin {"mst_init", "mst_enum", "mst_sort"}

ArcLines == {k \in 1 .. Len(out) : out[k][1] = "arc"}

----------------------------------------------------------------------------
(* C1: whenever Task 1 returns an edge set, it has exactly N-1 edges, all   *)
(* of them candidates, it is acyclic, it connects all N nodes, and its      *)
(* total weight is at most that of every spanning tree of the candidates.   *)
C1_MstIsMinimumSpanningTree ==
    MstJustReturned =>
        LET R == SeqRange(result)
            C == Candidates(N, distanceMatrix)
        IN /\ Len(result) = N - 1
           /\ Cardinality(R) = N - 1
           /\ R \subseteq C
           /\ Acyclic(R)
           /\ ConnectsAll(N, R)
           /\ \A T \in SpanningTrees(N, C) : SumWeights(R) <= SumWeights(T)

\* the 4-node scenario: 16 spanning trees, (0,1,10),(0,2,15),(0,3,20) chosen
C1_Witness ==
    /\ MstJustReturned
    /\ N = ScenarioN /\ distanceMatrix = ScenarioDist
    /\ result = << [u |-> 0, v |-> 1, weight |-> 10],
                   [u |-> 0, v |-> 2, weight |-> 15],
                   [u |-> 0, v |-> 3, weight |-> 20] >>
    /\ Cardinality(SpanningTrees(N, Candidates(N, distanceMatrix))) = 16

\* k edges of C can be added one after the other without closing a cycle
CanAddWithoutCycle(n, C, k) ==
    \E T \in SUBSET C : Cardinality(T) = k /\ Acyclic(T)

(* C2 (as claimed): Task 1 returns exactly N-1 edges whenever N-1 candidate *)
(* edges can be added without forming a cycle, and signals Disconnected     *)
(* only when fewer than N-1 can; N = 1 needs 0 edges.                       *)
C2_DisconnectedOnlyWhenNoTree ==
    MstOver =>
        /\ CanAddWithoutCycle(N, Candidates(N, distanceMatrix), N - 1)
              => (MstReturned /\ Len(result) = N - 1)
        /\ MstFailed
              => ~CanAddWithoutCycle(N, Candidates(N, distanceMatrix), N - 1)

(* C3: with zero candidate edges, or with fewer than N-1 edges accepted     *)
(* when the accept loop is over, Task 1 ends in the Disconnected error, and *)
(* no edge of a partial tree is ever written as result.                     *)
C3_DisconnectedNeverEmitsPartialTree ==
    /\ (MstOver /\ (Candidates(N, distanceMatrix) = {} \/ Len(result) < N - 1))
          => (pc = "error" /\ MstFailed)
    /\ MstFailed => ArcLines = {}
    /\ ArcLines # {} => (Len(result) = N - 1 /\ Cardinality(ArcLines) = N - 1)

\* an isolated node: one edge was accepted, then the error, nothing printed
C3_Witness ==
    /\ pc = "error" /\ err = MsgDisconnected
    /\ N = 3
    /\ distanceMatrix[0][2] = 0 /\ distanceMatrix[1][2] = 0
    /\ Len(result) = 1
    /\ out = <<>>

(* C9 (as claimed): after the sort the candidates are in ascending weight   *)
(* and candidates of equal weight keep their enumeration order (stable).    *)
C9_SortAscendingAndStable ==
    SortDone => (Ascending(edges) /\ Stable(edges))

(* C9 (amended): after the sort the candidates are in ascending weight and  *)
(* are a permutation of the enumerated candidates; equal weights may have   *)
(* changed their relative order.                                            *)
C9_SortAscendingPermutation ==
    SortDone =>
        /\ Ascending(edges)
        /\ Len(edges) = Cardinality(Candidates(N, distanceMatrix))
        /\ SeqRange(edges) = Candidates(N, distanceMatrix)

\* a sort that moved an edge past an equal-weight one
C9_Witness ==
    /\ SortDone
    /\ Len(edges) >= 3
    /\ ~Stable(edges)
    /\ Ascending(edges)

(* C10: a pair (i, j), i<j, with distance[i][j] = 0 is never a candidate,   *)
(* no edge of weight 0 is in the returned tree, and Task 1 returns a tree   *)
(* only if the pairs of nonzero distance alone connect all nodes.           *)
C10_ZeroDistanceIsNoEdge ==
    /\ pc \notin {"mst_init", "mst_enum"} =>
          /\ \A k \in 1 .. Len(edges) :
                /\ edges[k].u < edges[k].v
                /\ edges[k].weight = distanceMatrix[edges[k].u][edges[k].v]
                /\ edges[k].weight # 0
          /\ \A p \in UpperPairs(N) :
                distanceMatrix[p[1]][p[2]] = 0 =>
                    ~\E k \in 1 .. Len(edges) : edges[k].u = p[1] /\ edges[k].v = p[2]
    /\ \A k \in 1 .. Len(result) : result[k].weight # 0
    /\ MstReturned =>
          ConnectsAll(N, Candidates(N, distanceMatrix))

\* a zero pair (0,1) whose reverse entry is nonzero, tree built around it
C10_Witness ==
    /\ MstReturned
    /\ N = 3
    /\ distanceMatrix[0][1] = 0 /\ distanceMatrix[1][0] # 0
    /\ Len(result) = 2

----------------------------------------------------------------------------
(* Notions used to state the properties of Task 2 *)

TourPcs == {"tsp_init", "tsp_solve", "tsp_walk"}

\* tsp(1, 0) has returned
TspSolved == pc \notin (MstPcs \cup {"tsp_init", "tsp_solve", "error"})
\* the route has been reconstructed and printed
RouteDone == pc \notin (MstPcs \cup TourPcs \cup {"error"})

\* orders in which the nodes 1..n-1 can be visited
VisitOrders(n) ==
    {f \in [1 .. n - 1 -> 1 .. n - 1] : \A a, b \in 1 .. n - 1 : f[a] = f[b] => a = b}

RECURSIVE LegSum(_, _, _)
\* sum of d[s[k]][s[k+1]] for k = from .. Len(s)-1
LegSum(d, s, from) ==
    IF from >= Len(s) THEN 0
    ELSE d[s[from]][s[from + 1]] + LegSum(d, s, from + 1)

\* the closed tour 0, f[1], ..., f[n-1], 0
CycleOf(n, f) == <<0>> \o [k \in 1 .. n - 1 |-> f[k]] \o <<0>>

CycleCosts(n, d) == {LegSum(d, CycleOf(n, f), 1) : f \in VisitOrders(n)}

MinOf(S) == CHOOSE x \in S : \A y \in S : x <= y

(* C4: the cost returned by tsp(1, 0) is the minimum, over all (N-1)!       *)
(* Hamiltonian cycles from node 0 back to node 0, of the sum of the         *)
(* distances along the cycle; it is 80 for the 4-node scenario.             *)
C4_TspCostIsBruteForceMinimum ==
    TspSolved =>
        /\ CycleCosts(N, distanceMatrix) # {}
        /\ minCost = MinOf(CycleCosts(N, distanceMatrix))
        /\ (N = ScenarioN /\ distanceMatrix = ScenarioDist) => minCost = 80

C4_Witness ==
    /\ TspSolved
    /\ N = ScenarioN /\ distanceMatrix = ScenarioDist
    /\ Cardinality(VisitOrders(N)) = 6
    /\ minCost = 80

(* C5: the reconstructed path has N+1 entries, starts and ends at node 0,   *)
(* visits every node exactly once in between (node 0 only at the two ends), *)
(* and the sum of its legs equals the cost returned by tsp(1, 0).           *)
C5_PathIsOptimalTour ==
    RouteDone =>
        /\ Len(path) = N + 1
        /\ path[1] = 0 /\ path[N + 1] = 0
        /\ {path[k] : k \in 1 .. N} = Nodes(N)
        /\ \A k \in 2 .. N : path[k] # 0
        /\ LegSum(distanceMatrix, path, 1) = minCost

\* an asymmetric 3-node input whose cheaper tour visits node 2 first
C5_Witness ==
    /\ RouteDone
    /\ N = 3
    /\ path = <<0, 2, 1, 0>>
    /\ LegSum(distanceMatrix, <<0, 1, 2, 0>>, 1) > minCost

----------------------------------------------------------------------------
(* Notions used to state the properties of Task 3 *)

FlowPcs == {"flow_init", "flow_loop"}

\* the flow has been computed and printed
FlowDone == pc \in {"voronoi", "done"}

\* sets S with the source inside and the sink outside
Cuts(n) == {S \in SUBSET Nodes(n) : 0 \in S /\ (n - 1) \notin S}

RECURSIVE SumOver(_, _)
\* sum of c[p[1]][p[2]] over the pairs p of P
SumOver(c, P) ==
    IF P = {} THEN 0
    ELSE LET p == CHOOSE q \in P : TRUE IN c[p[1]][p[2]] + SumOver(c, P \ {p})

CutCapacity(n, c, S) == SumOver(c, S \X (Nodes(n) \ S))

RECURSIVE ReachFrom(_, _, _)
\* nodes reachable from S over edges of positive c
ReachFrom(n, c, S) ==
    LET T == S \cup {b \in Nodes(n) : \E a \in S : c[a][b] > 0}
    IN IF T = S THEN S ELSE ReachFrom(n, c, T)

HasPath(n, c) == (n - 1) \in ReachFrom(n, c, {0})

FlowLines == {k \in 1 .. Len(out) : out[k][1] = "flow"}
RouteLines == {k \in 1 .. Len(out) : out[k][1] = "route"}

(* C6: the flow value computed for source 0 and sink N-1 is at most the     *)
(* capacity of every cut separating source from sink and equals the least   *)
(* such capacity; it is 20 for the 4-node diamond.                          *)
C6_MaxFlowEqualsMinCut ==
    FlowDone =>
        /\ \A S \in Cuts(N) : maxFlow <= CutCapacity(N, capacityMatrix, S)
        /\ N > 1 => maxFlow = MinOf({CutCapacity(N, capacityMatrix, S) : S \in Cuts(N)})
        /\ (N = ScenarioN /\ capacityMatrix = ScenarioCap) => maxFlow = 20

C6_Witness ==
    /\ FlowDone
    /\ N = ScenarioN /\ capacityMatrix = ScenarioCap
    /\ Cardinality(Cuts(N)) = 4
    /\ maxFlow = 20

C8_FailureDoesNotStopOtherSolvers ==
    (pc \in {"done", "error"} /\ MstFailed) =>
        (RouteLines # {} /\ FlowLines # {})

----------------------------------------------------------------------------
(* C11: from the end of input loading until the program ends, every step    *)
(* leaves N, distanceMatrix, capacityMatrix and coords as they were loaded;  *)
(* a step of the Max-Flow Solver changes, of the matrices, only residual     *)
(* (and its own parentFlow and maxFlow), never the state of Task 1 or 2.     *)
C11_InputGraphIsReadOnly ==
    [][/\ UNCHANGED inputVars
       /\ pc \in FlowPcs => UNCHANGED <<mstVars, tspVars>>]_vars

\* the whole program has run and the flow solver has changed its residual copy
C11_Witness ==
    /\ pc = "done"
    /\ maxFlow > 0
    /\ residual # capacityMatrix

C13_AugmentationLoopTerminates ==
    /\ [][(pc = "flow_loop" /\ pc' = "flow_loop") => maxFlow' > maxFlow]_vars
    /\ <>(pc = "voronoi")

\* the loop has ended after more than one augmentation
C13_Witness ==
    /\ pc = "voronoi"
    /\ N = MaxN
    /\ maxFlow > MaxCap

\* position of main() among the four tasks; 5 is the end of the program
StageOf(p) ==
    CASE p \in MstPcs -> 1
      [] p \in TourPcs -> 2
      [] p \in FlowPcs -> 3
      [] p = "voronoi" -> 4
      [] OTHER -> 5

(* C20: main() moves through Spanning Tree, Tour, Max-Flow and the          *)
(* coordinate listing in that order and never back; the union-find arrays    *)
(* and the edge lists change only during Task 1, DP and the walk only        *)
(* during Task 2, residual, parentFlow and maxFlow only during Task 3, and   *)
(* each task finds the state of the later tasks as it was left at start-up.  *)
C20_SolversRunInSequenceAndIsolated ==
    [][/\ StageOf(pc') \in {StageOf(pc), StageOf(pc) + 1, 5}
       /\ pc \notin MstPcs => UNCHANGED mstVars
       /\ pc \notin TourPcs => UNCHANGED tspVars
       /\ pc \notin FlowPcs => UNCHANGED flowVars
       /\ pc \in MstPcs => UNCHANGED <<tspVars, flowVars>>
       /\ pc \in TourPcs => UNCHANGED flowVars]_vars

\* all four tasks have run and each solver has left a result
C20_Witness ==
    /\ pc = "done"
    /\ Len(result) = N - 1 /\ N > 1
    /\ Len(path) = N + 1
    /\ maxFlow > 0
    /\ err = ""

----------------------------------------------------------------------------
Next ==
    \/ MstInit
    \/ MstEnumerate
    \/ MstSort
    \/ KruskalStep
    \/ KruskalExit
    \/ TspInit
    \/ TspSolve
    \/ ReconstructStep
    \/ ReconstructExit
    \/ FlowInit
    \/ FlowAugment
    \/ FlowExit
    \/ Voronoi

Spec == Init /\ [][Next]_vars

\* Task 2 entered on any loaded input.
InitTour ==
    /\ OthersIdle
    /\ pc = "tsp_init"
    /\ \/ \E n \in 1 .. MaxN : \E d \in DistInputs(n, 0 .. MaxW) :
             Loaded(n, d, ZeroMatrix(n))
       \/ Loaded(ScenarioN, ScenarioDist, ScenarioCap)

NextTour ==
    \/ TspInit
    \/ TspSolve
    \/ ReconstructStep
    \/ ReconstructExit

SpecTour == InitTour /\ [][NextTour]_vars

\* Task 3 entered on any loaded input.
InitFlow ==
    /\ OthersIdle
    /\ pc = "flow_init"
    /\ \/ \E n \in 1 .. MaxN : \E c \in CapInputs(n) : Loaded(n, ZeroMatrix(n), c)
       \/ \E c \in ScenarioCaps : Loaded(ScenarioN, ScenarioDist, c)

NextFlow ==
    \/ FlowInit
    \/ FlowAugment
    \/ FlowExit

SpecFlow == InitFlow /\ [][NextFlow]_vars

\* A step of the augmentation loop (FlowAugment or FlowExit) is possible
\* exactly while main() is at the loop.
FlowLoopStepPossible ==
    (ENABLED <<FlowAugment \/ FlowExit>>_vars) <=> pc = "flow_loop"

\* Weak fairness of the loop step, written with the enabling condition
\* pc = "flow_loop" that FlowLoopStepPossible establishes.
FlowLoopProgress ==
    []<>(pc # "flow_loop") \/ []<><<FlowAugment \/ FlowExit>>_vars

\* Task 3 as a sequential program: main() always takes its next step.
SpecFlowFair ==
    InitFlow /\ [][NextFlow]_vars /\ WF_vars(FlowInit) /\ FlowLoopProgress

\* The graph program when another program is the one that runs.
Act7Idle ==
    /\ pc = "off"
    /\ Loaded(1, ZeroMatrix(1), ZeroMatrix(1))

----------------------------------------------------------------------------
(* src/Act1/main.cpp: merge sort in descending order.                       *)
(* An element of numbers is a record [key, tag]: key is the value the code   *)
(* compares and prints, tag is the position at which the element was read,   *)
(* so that elements that compare equal (as 0.0 and -0.0 do) stay apart.      *)
(* leftArr and rightArr are sequences: leftArr[k] of the code is             *)
(* leftArr[k + 1] here.                                                      *)

MaxElems == 4   \* largest numElements of the enumerated inputs
MaxKey == 2     \* keys of the enumerated inputs are in 0..MaxKey

sortFrame == <<act7Vars, kmpVars, coinVars, hashVars, pathVars, heapVars>>

\* Variant of MergeLoop that takes the left element only when it is greater.
RECURSIVE MergeLoop_Strict(_, _, _, _, _, _)
MergeLoop_Strict(nums, leftArr, rightArr, leftIndex, rightIndex, mergeIndex) ==
    IF leftIndex < Len(leftArr) /\ rightIndex < Len(rightArr)
    THEN IF leftArr[leftIndex + 1].key > rightArr[rightIndex + 1].key
         THEN MergeLoop_Strict([nums EXCEPT ![mergeIndex] = leftArr[leftIndex + 1]],
                               leftArr, rightArr, leftIndex + 1, rightIndex, mergeIndex + 1)
         ELSE MergeLoop_Strict([nums EXCEPT ![mergeIndex] = rightArr[rightIndex + 1]],
                               leftArr, rightArr, leftIndex, rightIndex + 1, mergeIndex + 1)
    ELSE IF leftIndex < Len(leftArr)
    THEN MergeLoop_Strict([nums EXCEPT ![mergeIndex] = leftArr[leftIndex + 1]],
                          leftArr, rightArr, leftIndex + 1, rightIndex, mergeIndex + 1)
    ELSE IF rightIndex < Len(rightArr)
    THEN MergeLoop_Strict([nums EXCEPT ![mergeIndex] = rightArr[rightIndex + 1]],
                          leftArr, rightArr, leftIndex, rightIndex + 1, mergeIndex + 1)
    ELSE nums

\* the three while loops of merge, one after the other
RECURSIVE MergeLoop(_, _, _, _, _, _)
MergeLoop(nums, leftArr, rightArr, leftIndex, rightIndex, mergeIndex) ==
    IF leftIndex < Len(leftArr) /\ rightIndex < Len(rightArr)
    THEN IF leftArr[leftIndex + 1].key >= rightArr[rightIndex + 1].key
         THEN MergeLoop([nums EXCEPT ![mergeIndex] = leftArr[leftIndex + 1]],
                        leftArr, rightArr, leftIndex + 1, rightIndex, mergeIndex + 1)
         ELSE MergeLoop([nums EXCEPT ![mergeIndex] = rightArr[rightIndex + 1]],
                        leftArr, rightArr, leftIndex, rightIndex + 1, mergeIndex + 1)
    ELSE IF leftIndex < Len(leftArr)
    THEN MergeLoop([nums EXCEPT ![mergeIndex] = leftArr[leftIndex + 1]],
                   leftArr, rightArr, leftIndex + 1, rightIndex, mergeIndex + 1)
    ELSE IF rightIndex < Len(rightArr)
    THEN MergeLoop([nums EXCEPT ![mergeIndex] = rightArr[rightIndex + 1]],
                   leftArr, rightArr, leftIndex, rightIndex + 1, mergeIndex + 1)
    ELSE nums

merge(nums, left, mid, right) ==
    LET sizeLeft == mid - left + 1
        sizeRight == right - mid
        leftArr == [k \in 1 .. sizeLeft |-> nums[left + k - 1]]
        rightArr == [k \in 1 .. sizeRight |-> nums[mid + 1 + k - 1]]
    IN MergeLoop(nums, leftArr, rightArr, 0, 0, left)

RECURSIVE mergeSort(_, _, _)
mergeSort(nums, left, right) ==
    IF left < right
    THEN LET mid == left + (right - left) \div 2
             sortedLeft == mergeSort(nums, left, mid)
             sortedBoth == mergeSort(sortedLeft, mid + 1, right)
         IN merge(sortedBoth, left, mid, right)
    ELSE nums

\* numbers after the read loop: the k-th value read carries tag k
ReadNumbers(n, keys) == [k \in 0 .. n - 1 |-> [key |-> keys[k], tag |-> k]]

\* State of main() after the read loop.
InitSort ==
    /\ Act7Idle /\ KmpIdle /\ CoinIdle /\ HashIdle /\ PathIdle /\ HeapIdle
    /\ \E n \in 0 .. MaxElems : \E keys \in [0 .. n - 1 -> 0 .. MaxKey] :
          /\ numElements = n
          /\ numbers = ReadNumbers(n, keys)
          /\ numbersRead = ReadNumbers(n, keys)
    /\ sortPc = "sort"
    /\ sortOut = <<>>

\* mergeSort(numbers, 0, numElements - 1)
SortCall ==
    /\ sortPc = "sort"
    /\ numbers' = mergeSort(numbers, 0, numElements - 1)
    /\ sortPc' = "print"
    /\ UNCHANGED <<sortFrame, numElements, numbersRead, sortOut>>

\* the output loop
SortPrint ==
    /\ sortPc = "print"
    /\ sortOut' = [k \in 1 .. numElements |-> numbers[k - 1].key]
    /\ sortPc' = "done"
    /\ UNCHANGED <<sortFrame, numElements, numbers, numbersRead>>

NextSort ==
    \/ SortCall
    \/ SortPrint

SpecSort == InitSort /\ [][NextSort]_vars

SortReturned == sortPc \in {"print", "done"}

(* C19: when mergeSort(numbers, 0, n - 1) has returned, numbers holds the   *)
(* elements that were read, each once, in descending order of value, and     *)
(* two elements of equal value are in the order in which they were read.     *)
C19_MergeSortDescendingStablePermutation ==
    SortReturned =>
        /\ DOMAIN numbers = 0 .. numElements - 1
        /\ {numbers[k] : k \in 0 .. numElements - 1}
             = {numbersRead[k] : k \in 0 .. numElements - 1}
        /\ \A a, b \in 0 .. numElements - 1 :
              a < b => /\ numbers[a].key >= numbers[b].key
                       /\ numbers[a].key = numbers[b].key
                            => numbers[a].tag < numbers[b].tag

\* MaxElems elements with a repeated value have been sorted and really moved
C19_Witness ==
    /\ sortPc = "done"
    /\ numElements = MaxElems
    /\ numbers # numbersRead
    /\ \E a, b \in 0 .. numElements - 1 :
          a < b /\ numbersRead[a].key = numbersRead[b].key
                /\ numbersRead[a].key > numbersRead[0].key

----------------------------------------------------------------------------
(* src/Act7/main.cpp, first translation unit: KMP pattern search.           *)
(* A string is the sequence of its character codes; the buffers of main()    *)
(* are zero-initialised, so the character after the last one is 0.  The      *)
(* array lps is a function over 0..M; -1 stands for an entry never written.  *)

MaxText == 4     \* longest text of the enumerated inputs
MaxPattern == 3  \* longest pattern of the enumerated inputs

kmpFrame == <<act7Vars, sortVars, coinVars, hashVars, pathVars, heapVars>>

\* the character codes of 'a' and 'b'
KmpAlphabet == {97, 98}

StringsUpTo(n) == UNION {[1 .. k -> KmpAlphabet] : k \in 0 .. n}

\* s[k] of the code
CharAt(s, k) == IF k < Len(s) THEN s[k + 1] ELSE 0

\* the while loop of computeLPSArray
RECURSIVE LpsLoop(_, _, _, _, _)
LpsLoop(pat, M, idx, length, lps) ==
    IF idx < M
    THEN IF CharAt(pat, idx) = CharAt(pat, length)
         THEN LpsLoop(pat, M, idx + 1, length + 1, [lps EXCEPT ![idx] = length + 1])
         ELSE IF length # 0
              THEN LpsLoop(pat, M, idx, lps[length - 1], lps)
              ELSE LpsLoop(pat, M, idx + 1, length, [lps EXCEPT ![idx] = 0])
    ELSE lps

computeLPSArray(pat, M) ==
    LpsLoop(pat, M, 1, 0, [[k \in 0 .. M |-> -1] EXCEPT ![0] = 0])

\* the while loop of KMPSearch; p is the value of pos on entry
RECURSIVE KmpLoop(_, _, _, _, _, _, _, _)
KmpLoop(txt, pat, n, M, lps, ti, pj, p) ==
    IF ti < n
    THEN LET hit == CharAt(pat, pj) = CharAt(txt, ti)
             i2 == IF hit THEN ti + 1 ELSE ti
             j2 == IF hit THEN pj + 1 ELSE pj
         IN IF j2 = M
            THEN [found |-> TRUE, pos |-> i2 - j2 + 1]
            ELSE IF i2 < n /\ CharAt(pat, j2) # CharAt(txt, i2)
                 THEN IF j2 # 0
                      THEN KmpLoop(txt, pat, n, M, lps, i2, lps[j2 - 1], p)
                      ELSE KmpLoop(txt, pat, n, M, lps, i2 + 1, j2, p)
                 ELSE KmpLoop(txt, pat, n, M, lps, i2, j2, p)
    ELSE [found |-> FALSE, pos |-> p]

KMPSearch(txt, pat, n, M, p) ==
    KmpLoop(txt, pat, n, M, computeLPSArray(pat, M), 0, 0, p)

\* State of main() after the files were read and the lengths taken; pos is
\* declared without an initial value.
InitKmp ==
    /\ Act7Idle /\ SortIdle /\ CoinIdle /\ HashIdle /\ PathIdle /\ HeapIdle
    /\ text \in StringsUpTo(MaxText)
    /\ pattern \in StringsUpTo(MaxPattern)
    /\ matchPos \in {-1, 0}
    /\ kmpFound = FALSE
    /\ kmpPc = "search"
    /\ kmpOut = <<>>

\* KMPSearch(transmission1, mcode1, N1, M1, pos)
KmpCall ==
    /\ kmpPc = "search"
    /\ LET r == KMPSearch(text, pattern, Len(text), Len(pattern), matchPos)
       IN /\ kmpFound' = r.found
          /\ matchPos' = r.pos
    /\ kmpPc' = "print"
    /\ UNCHANGED <<kmpFrame, text, pattern, kmpOut>>

\* cout << "true " << pos, or cout << "false"
KmpPrint ==
    /\ kmpPc = "print"
    /\ kmpOut' = IF kmpFound THEN <<"true", matchPos>> ELSE <<"false">>
    /\ kmpPc' = "done"
    /\ UNCHANGED <<kmpFrame, text, pattern, matchPos, kmpFound>>

NextKmp ==
    \/ KmpCall
    \/ KmpPrint

SpecKmp == InitKmp /\ [][NextKmp]_vars

\* the pattern is the part of the text that starts at the 1-based index k
OccursAt(txt, pat, k) ==
    /\ k \in 1 .. Len(txt) - Len(pat) + 1
    /\ \A m \in 1 .. Len(pat) : txt[k + m - 1] = pat[m]

Occurrences(txt, pat) == {k \in 1 .. Len(txt) + 1 : OccursAt(txt, pat, k)}

(* C18 (as claimed): KMPSearch returns true exactly when the pattern occurs *)
(* in the text as a contiguous substring, pos is then the 1-based index of   *)
(* the first occurrence, and a search that returns false leaves pos as it    *)
(* was.                                                                      *)
C18_KmpFindsFirstOccurrence ==
    /\ [](kmpPc \in {"print", "done"} =>
            /\ kmpFound <=> Occurrences(text, pattern) # {}
            /\ kmpFound => /\ matchPos \in Occurrences(text, pattern)
                           /\ \A k \in Occurrences(text, pattern) : matchPos <= k)
    /\ [][(kmpPc = "search" /\ ~kmpFound') => matchPos' = matchPos]_vars

----------------------------------------------------------------------------
(* src/unnamed/part_001: change making by dynamic programming and greedily. *)
(* The arrays denominations, coinCount and minCoinsRequired are functions    *)
(* over 0..n-1 (0..changeAmount for minCoinsRequired).                       *)

MaxDenoms == 3   \* largest numDenominations of the enumerated inputs
MaxDenom == 4    \* denominations of the enumerated inputs are in 1..MaxDenom
MaxChange == 6   \* paymentAmount - productPrice is in 0..MaxChange

coinFrame == <<act7Vars, sortVars, kmpVars, hashVars, pathVars, heapVars>>

\* the two nested loops of sortAndPrintResults, from (a, b) on
RECURSIVE BubbleFrom(_, _, _, _, _)
BubbleFrom(coinCount, den, n, a, b) ==
    IF ~(a < n - 1) THEN [coinCount |-> coinCount, denominations |-> den]
    ELSE IF ~(b < n - a - 1) THEN BubbleFrom(coinCount, den, n, a + 1, 0)
    ELSE IF den[b] < den[b + 1]
    THEN BubbleFrom([coinCount EXCEPT ![b] = coinCount[b + 1], ![b + 1] = coinCount[b]],
                    [den EXCEPT ![b] = den[b + 1], ![b + 1] = den[b]],
                    n, a, b + 1)
    ELSE BubbleFrom(coinCount, den, n, a, b + 1)

\* sortAndPrintResults: the sorted arrays and the lines printed
sortAndPrintResults(coinCount, den, n) ==
    LET r == BubbleFrom(coinCount, den, n, 0, 0)
    IN [denominations |-> r.denominations,
        printed |-> [k \in 1 .. n |-> r.coinCount[k - 1]]]

\* the loops that fill minCoinsRequired, from (currentAmount, j) on
RECURSIVE FillFrom(_, _, _, _, _, _)
FillFrom(minCoinsRequired, den, n, changeAmount, currentAmount, j) ==
    IF ~(currentAmount <= changeAmount) THEN minCoinsRequired
    ELSE IF ~(j < n)
    THEN FillFrom(minCoinsRequired, den, n, changeAmount, currentAmount + 1, 0)
    ELSE IF currentAmount >= den[j]
    THEN FillFrom([minCoinsRequired EXCEPT ![currentAmount] =
                       Min(minCoinsRequired[currentAmount],
                           minCoinsRequired[currentAmount - den[j]] + 1)],
                  den, n, changeAmount, currentAmount, j + 1)
    ELSE FillFrom(minCoinsRequired, den, n, changeAmount, currentAmount, j + 1)

\* Variant of TakeFrom that takes a coin whenever it fits.
RECURSIVE TakeFrom_WheneverItFits(_, _, _, _, _, _)
TakeFrom_WheneverItFits(minCoinsRequired, den, n, a, remainingChange, coinCount) ==
    IF ~(a < n) THEN coinCount
    ELSE IF remainingChange >= den[a]
    THEN TakeFrom_WheneverItFits(minCoinsRequired, den, n, a, remainingChange - den[a],
                                 [coinCount EXCEPT ![a] = coinCount[a] + 1])
    ELSE TakeFrom_WheneverItFits(minCoinsRequired, den, n, a + 1, remainingChange, coinCount)

\* the loop of dynamicChangeMaking that counts the coins, from denomination a on
RECURSIVE TakeFrom(_, _, _, _, _, _)
TakeFrom(minCoinsRequired, den, n, a, remainingChange, coinCount) ==
    IF ~(a < n) THEN coinCount
    ELSE IF /\ remainingChange >= den[a]
            /\ minCoinsRequired[remainingChange]
                 = minCoinsRequired[remainingChange - den[a]] + 1
    THEN TakeFrom(minCoinsRequired, den, n, a, remainingChange - den[a],
                  [coinCount EXCEPT ![a] = coinCount[a] + 1])
    ELSE TakeFrom(minCoinsRequired, den, n, a + 1, remainingChange, coinCount)

\* Variant of dynamicChangeMaking that sorts a copy of the caller's array.
dynamicChangeMaking_SortsCopy(den, n, price, payment) ==
    LET changeAmount == payment - price
        minCoinsRequired ==
            FillFrom([c \in 0 .. changeAmount |-> IF c = 0 THEN 0 ELSE changeAmount + 1],
                     den, n, changeAmount, 1, 0)
        coinCount == TakeFrom(minCoinsRequired, den, n, 0, changeAmount,
                              [k \in 0 .. n - 1 |-> 0])
    IN [denominations |-> den,
        printed |-> sortAndPrintResults(coinCount, den, n).printed]

dynamicChangeMaking(den, n, price, payment) ==
    LET changeAmount == payment - price
        minCoinsRequired ==
            FillFrom([c \in 0 .. changeAmount |-> IF c = 0 THEN 0 ELSE changeAmount + 1],
                     den, n, changeAmount, 1, 0)
        coinCount == TakeFrom(minCoinsRequired, den, n, 0, changeAmount,
                              [k \in 0 .. n - 1 |-> 0])
    IN sortAndPrintResults(coinCount, den, n)

\* the counting loop of greedyChangeMaking, from denomination a on
RECURSIVE GreedyFrom(_, _, _, _, _)
GreedyFrom(den, n, a, changeAmount, coinCount) ==
    IF ~(a < n) THEN coinCount
    ELSE IF changeAmount >= den[a]
    THEN GreedyFrom(den, n, a, changeAmount - den[a],
                    [coinCount EXCEPT ![a] = coinCount[a] + 1])
    ELSE GreedyFrom(den, n, a + 1, changeAmount, coinCount)

greedyChangeMaking(den, n, price, payment) ==
    sortAndPrintResults(GreedyFrom(den, n, 0, payment - price, [k \in 0 .. n - 1 |-> 0]),
                        den, n)

\* State of main() after the input was read.
InitCoin ==
    /\ Act7Idle /\ SortIdle /\ KmpIdle /\ HashIdle /\ PathIdle /\ HeapIdle
    /\ numDenominations \in 1 .. MaxDenoms
    /\ denominations \in [0 .. numDenominations - 1 -> 1 .. MaxDenom]
    /\ denominationsRead = denominations
    /\ productPrice \in {0, 1}
    /\ \E change \in 0 .. MaxChange : paymentAmount = productPrice + change
    /\ coinPc = "dynamic"
    /\ coinOut = <<>>

\* dynamicChangeMaking(denominations, numDenominations, productPrice, paymentAmount)
DynamicCall ==
    /\ coinPc = "dynamic"
    /\ LET r == dynamicChangeMaking(denominations, numDenominations,
                                    productPrice, paymentAmount)
       IN /\ denominations' = r.denominations
          /\ coinOut' = Append(coinOut, r.printed)
    /\ coinPc' = "greedy"
    /\ UNCHANGED <<coinFrame, numDenominations, denominationsRead, productPrice,
                   paymentAmount>>

\* greedyChangeMaking(denominations, numDenominations, productPrice, paymentAmount)
GreedyCall ==
    /\ coinPc = "greedy"
    /\ LET r == greedyChangeMaking(denominations, numDenominations,
                                   productPrice, paymentAmount)
       IN /\ denominations' = r.denominations
          /\ coinOut' = Append(coinOut, r.printed)
    /\ coinPc' = "done"
    /\ UNCHANGED <<coinFrame, numDenominations, denominationsRead, productPrice,
                   paymentAmount>>

NextCoin ==
    \/ DynamicCall
    \/ GreedyCall

SpecCoin == InitCoin /\ [][NextCoin]_vars

\* f[k] + ... + f[n - 1]
RECURSIVE SumFrom(_, _, _)
SumFrom(f, k, n) == IF k >= n THEN 0 ELSE f[k] + SumFrom(f, k + 1, n)

\* number of coins of a vector of counts, and the amount it pays
CoinsIn(cnt, n) == SumFrom(cnt, 0, n)
AmountOf(cnt, den, n) == SumFrom([k \in 0 .. n - 1 |-> cnt[k] * den[k]], 0, n)

\* the numbers of coins of all ways of paying `amount` with the
\* denominations k .. n-1 (empty when the amount cannot be formed)
RECURSIVE CoinTotals(_, _, _, _)
CoinTotals(den, n, k, amount) ==
    IF k >= n THEN (IF amount = 0 THEN {0} ELSE {})
    ELSE UNION {{c + t : t \in CoinTotals(den, n, k + 1, amount - c * den[k])} :
                c \in 0 .. (amount \div den[k])}

DynamicReturned == coinPc \in {"greedy", "done"}

(* C17: whenever the change can be formed from the denominations, the coin  *)
(* counts printed by dynamicChangeMaking, each taken with the denomination   *)
(* of its line, add up to the change, and no way of paying the change uses   *)
(* fewer coins.                                                              *)
C17_DynamicChangeIsExactAndMinimal ==
    DynamicReturned =>
        LET n == numDenominations
            amount == paymentAmount - productPrice
            cnt == [k \in 0 .. n - 1 |-> coinOut[1][k + 1]]
            totals == CoinTotals(denominations, n, 0, amount)
        IN totals # {} =>
              /\ \A k \in 0 .. n - 1 : cnt[k] >= 0
              /\ AmountOf(cnt, denominations, n) = amount
              /\ \A t \in totals : CoinsIn(cnt, n) <= t

\* the largest change was paid with fewer coins than taking, largest
\* denomination first, every coin that fits would use
C17_Witness ==
    /\ coinPc = "greedy"
    /\ numDenominations = MaxDenoms
    /\ paymentAmount - productPrice = MaxChange
    /\ CoinsIn([k \in 0 .. numDenominations - 1 |-> coinOut[1][k + 1]], numDenominations)
         < CoinsIn(GreedyFrom(denominations, numDenominations, 0, MaxChange,
                              [k \in 0 .. numDenominations - 1 |-> 0]), numDenominations)

----------------------------------------------------------------------------
(* src/Act3/main.cpp: duplicate detection with an open-addressing hash      *)
(* table.  A string is the sequence of its character codes.  The table of    *)
(* the code has HASH_TABLE_SIZE = 200003 slots; the model keeps the code's   *)
(* hash function and probing and gives the table TableSize slots, so that    *)
(* collisions and wrap-around happen on short inputs.                        *)

TableSize == 3   \* number of slots of the table (HASH_TABLE_SIZE of the code)
MaxLines == 4    \* largest number of input lines

(* Program constants *)
PRIME_BASE == 31
MODULO == 1000000009

\* "#"
EMPTY_SLOT == <<35>>

hashFrame == <<act7Vars, sortVars, kmpVars, coinVars, pathVars, heapVars>>

\* the lines the inputs are made of: "", "#", "a", "b", "e", "##"
LineChoices == {<<>>, <<35>>, <<97>>, <<98>>, <<101>>, <<35, 35>>}

\* the loop of computeHashValue over the characters k+1.. of str
RECURSIVE HashFrom(_, _, _)
HashFrom(str, k, hashValue) ==
    IF k >= Len(str) THEN hashValue
    ELSE HashFrom(str, k + 1, (hashValue * PRIME_BASE + str[k + 1]) % MODULO)

computeHashValue(str) == HashFrom(str, 0, 0)

\* State of main() after initializeHashTable().
InitHash ==
    /\ Act7Idle /\ SortIdle /\ KmpIdle /\ CoinIdle /\ PathIdle /\ HeapIdle
    /\ hashTable = [k \in 0 .. TableSize - 1 |-> EMPTY_SLOT]
    /\ inputLines \in UNION {[1 .. n -> LineChoices] : n \in 0 .. MaxLines}
    /\ nextLine = 0
    /\ inputString = <<>>
    /\ hashIndex = 0
    /\ areAllStringsDistinct = TRUE
    /\ hashPc = "getline"
    /\ hashOut = <<>>

\* getline returns a line; a non-empty line enters findStringInHashTable
GetLine ==
    /\ hashPc = "getline"
    /\ nextLine < Len(inputLines)
    /\ inputString' = inputLines[nextLine + 1]
    /\ nextLine' = nextLine + 1
    /\ IF inputString' # <<>>
       THEN /\ hashIndex' = computeHashValue(inputString') % TableSize
            /\ hashPc' = "probe"
       ELSE UNCHANGED <<hashIndex, hashPc>>
    /\ UNCHANGED <<hashFrame, hashTable, inputLines, areAllStringsDistinct, hashOut>>

\* Variant of Probe that goes on at slot 0 instead of the next slot.
Probe_BackToFirstSlot ==
    /\ hashPc = "probe"
    /\ hashTable[hashIndex] # EMPTY_SLOT /\ hashTable[hashIndex] # inputString
    /\ hashIndex' = 0
    /\ UNCHANGED <<hashFrame, hashTable, inputLines, nextLine, inputString,
                   areAllStringsDistinct, hashPc, hashOut>>

\* one iteration of the probing loop of findStringInHashTable
Probe ==
    /\ hashPc = "probe"
    /\ hashTable[hashIndex] # EMPTY_SLOT /\ hashTable[hashIndex] # inputString
    /\ hashIndex' = (hashIndex + 1) % TableSize
    /\ UNCHANGED <<hashFrame, hashTable, inputLines, nextLine, inputString,
                   areAllStringsDistinct, hashPc, hashOut>>

\* the probing loop ends: found is set, and main() records a duplicate or
\* stores the string
ProbeEnd ==
    /\ hashPc = "probe"
    /\ ~(hashTable[hashIndex] # EMPTY_SLOT /\ hashTable[hashIndex] # inputString)
    /\ LET found == hashTable[hashIndex] = inputString
       IN IF found
          THEN areAllStringsDistinct' = FALSE /\ UNCHANGED hashTable
          ELSE /\ hashTable' = [hashTable EXCEPT ![hashIndex] = inputString]
               /\ UNCHANGED areAllStringsDistinct
    /\ hashPc' = "getline"
    /\ UNCHANGED <<hashFrame, inputLines, nextLine, inputString, hashIndex, hashOut>>

\* end of input: the verdict is printed
HashReport ==
    /\ hashPc = "getline"
    /\ nextLine = Len(inputLines)
    /\ hashOut' = IF areAllStringsDistinct
                  THEN <<"All strings are distinct">>
                  ELSE <<"Strings are not all distinct">>
    /\ hashPc' = "done"
    /\ UNCHANGED <<hashFrame, hashTable, inputLines, nextLine, inputString, hashIndex,
                   areAllStringsDistinct>>

NextHash ==
    \/ GetLine
    \/ Probe
    \/ ProbeEnd
    \/ HashReport

SpecHash == InitHash /\ [][NextHash]_vars

\* the non-empty input lines are pairwise different
NonEmptyLinesDistinct ==
    \A a, b \in 1 .. Len(inputLines) :
        (a # b /\ inputLines[a] # <<>>) => inputLines[a] # inputLines[b]

(* C14 (as claimed): when the program has printed its verdict, the verdict  *)
(* is 'All strings are distinct' exactly when the non-empty input lines are  *)
(* pairwise different, whatever the lines are (a line "#" included).         *)
C14_VerdictIffLinesDistinct ==
    hashPc = "done" =>
        (hashOut = <<"All strings are distinct">> <=> NonEmptyLinesDistinct)

----------------------------------------------------------------------------
(* src/Act4/main.cpp: all shortest distances, first by Dijkstra from every  *)
(* start node, then by Floyd-Warshall, both on adjMatrix (-1 for no edge).   *)

MaxNodes == 3    \* largest nodeCount of the enumerated inputs
MaxEdgeW == 2    \* small edge weights of the enumerated inputs are in 0..MaxEdgeW

(* Program constant *)
INF == 1000000000

pathFrame == <<act7Vars, sortVars, kmpVars, coinVars, hashVars, heapVars>>

\* the weights an entry off the diagonal is drawn from: no edge, a small
\* weight, or a weight of INF / 2
EdgeWeights == {-1} \cup (0 .. MaxEdgeW) \cup {INF \div 2}

AdjInputs(n) ==
    {[a \in Nodes(n) |-> [b \in Nodes(n) |-> IF a = b THEN 0 ELSE w[<<a, b>>]]] :
        w \in [{p \in Nodes(n) \X Nodes(n) : p[1] # p[2]} -> EdgeWeights]}

\* the loop that selects the unvisited node of minimum distance, from k on
RECURSIVE SelectFrom(_, _, _, _, _, _)
SelectFrom(distancesArray, visitedNodes, n, k, currentNode, minDistance) ==
    IF k >= n THEN currentNode
    ELSE IF ~visitedNodes[k] /\ distancesArray[k] < minDistance
    THEN SelectFrom(distancesArray, visitedNodes, n, k + 1, k, distancesArray[k])
    ELSE SelectFrom(distancesArray, visitedNodes, n, k + 1, currentNode, minDistance)

\* the loop that updates the neighbours of currentNode, from nextNode on
RECURSIVE RelaxFrom(_, _, _, _)
RelaxFrom(distancesArray, n, currentNode, nextNode) ==
    IF nextNode >= n THEN distancesArray
    ELSE IF /\ adjMatrix[currentNode][nextNode] # -1
            /\ distancesArray[nextNode]
                 > distancesArray[currentNode] + adjMatrix[currentNode][nextNode]
    THEN RelaxFrom([distancesArray EXCEPT ![nextNode] =
                        distancesArray[currentNode] + adjMatrix[currentNode][nextNode]],
                   n, currentNode, nextNode + 1)
    ELSE RelaxFrom(distancesArray, n, currentNode, nextNode + 1)

\* the loop `while (count < nodeCount)`
RECURSIVE DijkstraLoop(_, _, _, _)
DijkstraLoop(distancesArray, visitedNodes, n, count) ==
    IF ~(count < n) THEN distancesArray
    ELSE LET currentNode == SelectFrom(distancesArray, visitedNodes, n, 0, -1, INF)
         IN IF currentNode = -1
            THEN DijkstraLoop(distancesArray, visitedNodes, n, n)
            ELSE DijkstraLoop(RelaxFrom(distancesArray, n, currentNode, 0),
                              [visitedNodes EXCEPT ![currentNode] = TRUE],
                              n, count + 1)

\* distancesArray at the end of the iteration for start node s
DijkstraDistances(s, n) ==
    DijkstraLoop([k \in Nodes(n) |-> IF k = s THEN 0 ELSE INF],
                 [k \in Nodes(n) |-> FALSE], n, 0)

\* the lines printed for start node s, from destinationNode on
RECURSIVE DijkstraLines(_, _, _, _)
DijkstraLines(distancesArray, s, n, destinationNode) ==
    IF destinationNode >= n THEN <<>>
    ELSE (IF destinationNode # s /\ distancesArray[destinationNode] # INF
          THEN << <<s + 1, destinationNode + 1, distancesArray[destinationNode]>> >>
          ELSE <<>>)
         \o DijkstraLines(distancesArray, s, n, destinationNode + 1)

\* floydDistancesMatrix after the initialisation loops
FloydInitial(n) ==
    [a \in Nodes(n) |-> [b \in Nodes(n) |->
        IF a = b THEN 0
        ELSE IF adjMatrix[a][b] # -1 THEN adjMatrix[a][b] ELSE INF]]

\* the loops over i and j for one intermediate node k, from (a, b) on
RECURSIVE FloydFrom(_, _, _, _, _)
FloydFrom(m, n, k, a, b) ==
    IF a >= n THEN m
    ELSE IF m[a][k] = INF \/ b >= n THEN FloydFrom(m, n, k, a + 1, 0)
    ELSE IF m[k][b] # INF /\ m[a][b] > m[a][k] + m[k][b]
    THEN FloydFrom([m EXCEPT ![a][b] = m[a][k] + m[k][b]], n, k, a, b + 1)
    ELSE FloydFrom(m, n, k, a, b + 1)

\* State of main() after the matrix was read.
InitPath ==
    /\ Act7Idle /\ SortIdle /\ KmpIdle /\ CoinIdle /\ HashIdle /\ HeapIdle
    /\ nodeCount \in 1 .. MaxNodes
    /\ adjMatrix \in AdjInputs(nodeCount)
    /\ startNode = 0
    /\ dijkstraOut = <<>>
    /\ floydDistancesMatrix = [a \in Nodes(nodeCount) |-> [b \in Nodes(nodeCount) |-> 0]]
    /\ intermediateNode = 0
    /\ floydOut = <<>>
    /\ pathPc = "dijkstra"

\* one iteration of the loop over startNode
DijkstraFrom ==
    /\ pathPc = "dijkstra"
    /\ startNode < nodeCount
    /\ dijkstraOut' = dijkstraOut \o
           DijkstraLines(DijkstraDistances(startNode, nodeCount), startNode, nodeCount, 0)
    /\ startNode' = startNode + 1
    /\ UNCHANGED <<pathFrame, nodeCount, adjMatrix, floydDistancesMatrix,
                   intermediateNode, floydOut, pathPc>>

\* the loop over startNode ends; floydDistancesMatrix is initialised
FloydInit ==
    /\ pathPc = "dijkstra"
    /\ ~(startNode < nodeCount)
    /\ floydDistancesMatrix' = FloydInitial(nodeCount)
    /\ intermediateNode' = 0
    /\ pathPc' = "floyd"
    /\ UNCHANGED <<pathFrame, nodeCount, adjMatrix, startNode, dijkstraOut, floydOut>>

\* one iteration of the loop over k
FloydStep ==
    /\ pathPc = "floyd"
    /\ intermediateNode < nodeCount
    /\ floydDistancesMatrix' =
           FloydFrom(floydDistancesMatrix, nodeCount, intermediateNode, 0, 0)
    /\ intermediateNode' = intermediateNode + 1
    /\ UNCHANGED <<pathFrame, nodeCount, adjMatrix, startNode, dijkstraOut, floydOut,
                   pathPc>>

\* the loop over k ends; the matrix is printed, -1 for entries >= INF / 2
FloydPrint ==
    /\ pathPc = "floyd"
    /\ ~(intermediateNode < nodeCount)
    /\ floydOut' = [a \in Nodes(nodeCount) |-> [b \in Nodes(nodeCount) |->
                       IF floydDistancesMatrix[a][b] >= INF \div 2
                       THEN -1 ELSE floydDistancesMatrix[a][b]]]
    /\ pathPc' = "done"
    /\ UNCHANGED <<pathFrame, nodeCount, adjMatrix, startNode, dijkstraOut,
                   floydDistancesMatrix, intermediateNode>>

NextPath ==
    \/ DijkstraFrom
    \/ FloydInit
    \/ FloydStep
    \/ FloydPrint

SpecPath == InitPath /\ [][NextPath]_vars

\* the distances the Dijkstra part printed for the pair (s, d), 0-based
DijkstraPrinted(s, d) ==
    {dijkstraOut[k][3] : k \in {q \in 1 .. Len(dijkstraOut) :
                                   dijkstraOut[q][1] = s + 1 /\ dijkstraOut[q][2] = d + 1}}

(* C15 (as claimed): when both parts have printed, for every ordered pair   *)
(* of distinct nodes (s, d) the Dijkstra part printed a distance exactly     *)
(* when the Floyd entry is not printed as -1, and the two values are equal.  *)
C15_DijkstraAgreesWithFloyd ==
    pathPc = "done" =>
        \A s, d \in Nodes(nodeCount) :
            s # d => /\ DijkstraPrinted(s, d) # {} <=> floydOut[s][d] # -1
                     /\ \A x \in DijkstraPrinted(s, d) : x = floydOut[s][d]

----------------------------------------------------------------------------
(* src/unnamed/part_000: Dijkstra from node 7 with an adjacency list and a  *)
(* binary min-heap.  The arrays dist, visited and heapPos are functions      *)
(* over the nodes of the input, heap is a function over 1..number of nodes   *)
(* (entry 0 of the code's array is never used).  An adjacency list is the    *)
(* sequence of its edges, first edge first; the heap is passed to the        *)
(* operators as a record [heap, heapPos, heapSize].                          *)

MaxOthers == 4   \* the nodes of the enumerated inputs are 1..MaxOthers and node 7
MaxArcW == 2     \* arc weights of the enumerated inputs are in 0..MaxArcW

(* Program constant: int startNode = 7 *)
heapStartNode == 7

heapFrame == <<act7Vars, sortVars, kmpVars, coinVars, hashVars, pathVars>>

HeapNodes == (1 .. MaxOthers) \cup {heapStartNode}

\* The arc lines of an input, in file order: an arc from the start node to
\* every node v with ws[v] # -1 (weight ws[v]), the arcs v -> v + 1 for the
\* v in chain (weights 1, 0, 1, ...), and an arc of weight 0 from node 1
\* back to the start node.
RECURSIVE StartArcs(_, _)
StartArcs(ws, v) ==
    IF v > MaxOthers THEN <<>>
    ELSE (IF ws[v] # -1 THEN <<[from |-> heapStartNode, to |-> v, weight |-> ws[v]]>>
          ELSE <<>>) \o StartArcs(ws, v + 1)

RECURSIVE ChainArcs(_, _)
ChainArcs(chain, v) ==
    IF v >= MaxOthers THEN <<>>
    ELSE (IF v \in chain THEN <<[from |-> v, to |-> v + 1, weight |-> v % 2]>>
          ELSE <<>>) \o ChainArcs(chain, v + 1)

ArcsRead(ws, chain) ==
    StartArcs(ws, 1) \o ChainArcs(chain, 1)
        \o <<[from |-> 1, to |-> heapStartNode, weight |-> 0]>>

\* the read loop: every arc is put at the front of the list of its source
RECURSIVE AdjOf(_, _)
AdjOf(arcs, lists) ==
    IF arcs = <<>> THEN lists
    ELSE LET a == Head(arcs)
         IN AdjOf(Tail(arcs),
                  [lists EXCEPT ![a.from] =
                       <<[to |-> a.to, weight |-> a.weight]>> \o lists[a.from]])

\* Variant of swap that leaves heapPos alone.
swap_KeepsPositions(h, a, b) ==
    [heap |-> [h.heap EXCEPT ![a] = h.heap[b], ![b] = h.heap[a]],
     heapPos |-> h.heapPos, heapSize |-> h.heapSize]

swap(h, a, b) ==
    LET hp == [h.heap EXCEPT ![a] = h.heap[b], ![b] = h.heap[a]]
        p1 == [h.heapPos EXCEPT ![hp[a]] = a]
        p2 == [p1 EXCEPT ![hp[b]] = b]
    IN [heap |-> hp, heapPos |-> p2, heapSize |-> h.heapSize]

RECURSIVE siftUp(_, _, _)
siftUp(h, d, idx) ==
    IF idx > 1 /\ d[h.heap[idx]] < d[h.heap[idx \div 2]]
    THEN siftUp(swap(h, idx, idx \div 2), d, idx \div 2)
    ELSE h

RECURSIVE siftDown(_, _, _)
siftDown(h, d, idx) ==
    IF 2 * idx <= h.heapSize
    THEN LET child == IF /\ 2 * idx + 1 <= h.heapSize
                         /\ d[h.heap[2 * idx + 1]] < d[h.heap[2 * idx]]
                      THEN 2 * idx + 1 ELSE 2 * idx
         IN IF d[h.heap[idx]] <= d[h.heap[child]]
            THEN h
            ELSE siftDown(swap(h, idx, child), d, child)
    ELSE h

insert(h, d, node) ==
    siftUp([heap |-> [h.heap EXCEPT ![h.heapSize + 1] = node],
            heapPos |-> [h.heapPos EXCEPT ![node] = h.heapSize + 1],
            heapSize |-> h.heapSize + 1],
           d, h.heapSize + 1)

\* extractMin: the heap afterwards and the node returned
extractMin(h, d) ==
    LET minNode == h.heap[1]
        moved == h.heap[h.heapSize]
        h2 == [heap |-> [h.heap EXCEPT ![1] = moved],
               heapPos |-> [h.heapPos EXCEPT ![moved] = 1],
               heapSize |-> h.heapSize - 1]
    IN [h |-> siftDown(h2, d, 1), minNode |-> minNode]

TheHeap == [heap |-> heap, heapPos |-> heapPos, heapSize |-> heapSize]

\* State of main() after the input was read and the arrays initialised.
InitHeap ==
    /\ Act7Idle /\ SortIdle /\ KmpIdle /\ CoinIdle /\ HashIdle /\ PathIdle
    /\ \E ws \in [1 .. MaxOthers -> -1 .. MaxArcW] : \E chain \in SUBSET (1 .. MaxOthers - 1) :
          adj = AdjOf(ArcsRead(ws, chain), [v \in HeapNodes |-> <<>>])
    /\ dist = [v \in HeapNodes |-> INF]
    /\ heapVisited = [v \in HeapNodes |-> FALSE]
    /\ heapPos = [v \in HeapNodes |-> -1]
    /\ heap = [k \in 1 .. MaxOthers + 1 |-> 0]
    /\ heapSize = 0
    /\ heapNode = 0
    /\ edge = <<>>
    /\ extracted = <<>>
    /\ heapPc = "start"

\* dist[startNode] = 0; heapSize = 0; insert(startNode)
HeapStart ==
    /\ heapPc = "start"
    /\ dist' = [dist EXCEPT ![heapStartNode] = 0]
    /\ LET h == insert([heap |-> heap, heapPos |-> heapPos, heapSize |-> 0],
                       dist', heapStartNode)
       IN /\ heap' = h.heap
          /\ heapPos' = h.heapPos
          /\ heapSize' = h.heapSize
    /\ heapPc' = "loop"
    /\ UNCHANGED <<heapFrame, adj, heapVisited, heapNode, edge, extracted>>

\* the loop test, u = extractMin(), and the test of visited[u]
ExtractMinStep ==
    /\ heapPc = "loop"
    /\ edge = <<>>
    /\ heapSize > 0
    /\ LET r == extractMin(TheHeap, dist)
       IN /\ heap' = r.h.heap
          /\ heapPos' = r.h.heapPos
          /\ heapSize' = r.h.heapSize
          /\ heapNode' = r.minNode
          /\ extracted' = Append(extracted, r.minNode)
          /\ IF ~heapVisited[r.minNode]
             THEN /\ heapVisited' = [heapVisited EXCEPT ![r.minNode] = TRUE]
                  /\ edge' = adj[r.minNode]
             ELSE UNCHANGED <<heapVisited, edge>>
    /\ UNCHANGED <<heapFrame, adj, dist, heapPc>>

\* Variant of RelaxEdge that does not move a node whose distance decreased.
RelaxEdge_NoDecreaseKey ==
    /\ heapPc = "loop"
    /\ edge # <<>>
    /\ LET v == Head(edge).to
           weight == Head(edge).weight
       IN IF dist[heapNode] + weight < dist[v]
          THEN /\ dist' = [dist EXCEPT ![v] = dist[heapNode] + weight]
               /\ LET h == IF heapPos[v] = -1 THEN insert(TheHeap, dist', v)
                           ELSE TheHeap
                  IN /\ heap' = h.heap
                     /\ heapPos' = h.heapPos
                     /\ heapSize' = h.heapSize
          ELSE UNCHANGED <<dist, heap, heapPos, heapSize>>
    /\ edge' = Tail(edge)
    /\ UNCHANGED <<heapFrame, adj, heapVisited, heapNode, extracted, heapPc>>

\* one iteration of `while (edge != NULL)`
RelaxEdge ==
    /\ heapPc = "loop"
    /\ edge # <<>>
    /\ LET v == Head(edge).to
           weight == Head(edge).weight
       IN IF dist[heapNode] + weight < dist[v]
          THEN /\ dist' = [dist EXCEPT ![v] = dist[heapNode] + weight]
               /\ LET h == IF heapPos[v] = -1 THEN insert(TheHeap, dist', v)
                           ELSE siftUp(TheHeap, dist', heapPos[v])
                  IN /\ heap' = h.heap
                     /\ heapPos' = h.heapPos
                     /\ heapSize' = h.heapSize
          ELSE UNCHANGED <<dist, heap, heapPos, heapSize>>
    /\ edge' = Tail(edge)
    /\ UNCHANGED <<heapFrame, adj, heapVisited, heapNode, extracted, heapPc>>

\* heapSize is 0: the main loop ends
HeapFinish ==
    /\ heapPc = "loop"
    /\ edge = <<>>
    /\ ~(heapSize > 0)
    /\ heapPc' = "done"
    /\ UNCHANGED <<heapFrame, adj, dist, heapVisited, heap, heapPos, heapSize,
                   heapNode, edge, extracted>>

NextHeap ==
    \/ HeapStart
    \/ ExtractMinStep
    \/ RelaxEdge
    \/ HeapFinish

SpecHeap == InitHeap /\ [][NextHeap]_vars

\* the weights of the paths from u to target that visit no node of seen again
RECURSIVE PathWeights(_, _, _)
PathWeights(u, target, seen) ==
    IF u = target THEN {0}
    ELSE UNION {{adj[u][k].weight + x :
                    x \in PathWeights(adj[u][k].to, target, seen \cup {adj[u][k].to})} :
                k \in {q \in 1 .. Len(adj[u]) : adj[u][q].to \notin seen}}

PathsTo(v) == PathWeights(heapStartNode, v, {heapStartNode})

(* C16: when the main loop has ended, dist[v] is the weight of a shortest   *)
(* path from the start node for every node v that can be reached, INF for    *)
(* every node that cannot, and the nodes came out of the heap in             *)
(* non-decreasing order of their distance.                                   *)
C16_HeapDijkstraIsCorrect ==
    heapPc = "done" =>
        /\ \A v \in HeapNodes :
              IF PathsTo(v) = {} THEN dist[v] = INF
              ELSE dist[v] \in PathsTo(v) /\ \A x \in PathsTo(v) : dist[v] <= x
        /\ \A a, b \in 1 .. Len(extracted) :
              a < b => dist[extracted[a]] <= dist[extracted[b]]

\* every node was reached, one of them only through the chain, and a node
\* that was already in the heap had its distance lowered
C16_Witness ==
    /\ heapPc = "done"
    /\ Len(extracted) = MaxOthers + 1
    /\ \E v \in 1 .. MaxOthers :
          \A k \in 1 .. Len(adj[heapStartNode]) : adj[heapStartNode][k].to # v
    /\ \E v \in 1 .. MaxOthers : \E k \in 1 .. Len(adj[heapStartNode]) :
          adj[heapStartNode][k].to = v /\ dist[v] < adj[heapStartNode][k].weight

----------------------------------------------------------------------------
(* Task 1 on its own: the inputs of Init, and five-node inputs on which the  *)
(* union-find trees get deep enough for findSet to re-point a node.          *)

DeepN == ScenarioN + 1

\* weight of the pair (a, b), a < b, in the weight table number `turn`
DeepWeight(a, b, turn) == 1 + ((a + turn * b) % (MaxW + 1))

\* symmetric five-node matrix: the pairs of `on` carry their table weight,
\* every other entry is 0
DeepDist(on, turn) ==
    [a \in Nodes(DeepN) |-> [b \in Nodes(DeepN) |->
        IF <<a, b>> \in on THEN DeepWeight(a, b, turn)
        ELSE IF <<b, a>> \in on THEN DeepWeight(b, a, turn)
        ELSE 0]]

DeepInputs ==
    {DeepDist(on, turn) : on \in SUBSET UpperPairs(DeepN), turn \in 0 .. MaxW}

InitMst ==
    /\ OthersIdle
    /\ pc = "mst_init"
    /\ \/ \E n \in 1 .. MaxN : \E d \in DistInputs(n, {0, 1}) :
             Loaded(n, d, ZeroMatrix(n))
       \/ Loaded(ScenarioN, ScenarioDist, ScenarioCap)
       \/ \E d \in DeepInputs : Loaded(DeepN, d, ZeroMatrix(DeepN))

NextMst ==
    \/ MstInit
    \/ MstEnumerate
    \/ MstSort
    \/ KruskalStep
    \/ KruskalExit

SpecMst == InitMst /\ [][NextMst]_vars

\* the accept loop has been entered
InAcceptLoop == pc = "mst_loop"

\* a and b are joined by the edges of E
Joined(a, b, E) == b \in Component(a, E)

\* s is t with some entries left out, order kept: s[k] = t[pick[k]]
IsPrefixSelection(s, t, upto) ==
    \E pick \in [1 .. Len(s) -> 1 .. upto] :
        /\ \A k \in 1 .. Len(s) : s[k] = t[pick[k]]
        /\ \A k \in 1 .. Len(s) - 1 : pick[k] < pick[k + 1]

(* C21: in the accept loop the candidates are taken in sorted order, one per *)
(* iteration; the candidate is accepted exactly when its endpoints are not   *)
(* yet joined by the accepted edges, so the accepted edges are always a      *)
(* forest; the loop goes on only while candidates remain and fewer than N-1  *)
(* edges are accepted, so never more than N-1 edges are accepted.            *)
C21_KruskalAcceptsForestInSortedOrder ==
    /\ [](InAcceptLoop =>
            /\ Ascending(edges)
            /\ i <= Len(edges)
            /\ Len(result) <= N - 1
            /\ Len(result) <= i
            /\ Cardinality(SeqRange(result)) = Len(result)
            /\ IsPrefixSelection(result, edges, i)
            /\ Acyclic(SeqRange(result)))
    /\ [][(InAcceptLoop /\ pc' = "mst_loop") =>
            /\ i < Len(edges) /\ Len(result) < N - 1
            /\ i' = i + 1
            /\ edges' = edges
            /\ IF Joined(edges[i + 1].u, edges[i + 1].v, SeqRange(result))
               THEN result' = result
               ELSE result' = Append(result, edges[i + 1])]_vars
    /\ [][(InAcceptLoop /\ pc' # "mst_loop") =>
            /\ Len(result) = N - 1 \/ i = Len(edges)
            /\ result' = result]_vars

\* the tree was complete before the candidates were exhausted, and a
\* candidate that would have closed a cycle was passed over on the way
C21_Witness ==
    /\ InAcceptLoop
    /\ N = DeepN
    /\ Len(result) = N - 1
    /\ i < Len(edges)
    /\ i > Len(result)

\* the node reached from u by following k parent pointers
RECURSIVE Ancestor(_, _, _)
Ancestor(u, par, k) == IF k = 0 THEN u ELSE Ancestor(par[u], par, k - 1)

\* following the parent pointers from any node reaches a node that is its
\* own parent
IsForest(n, par) ==
    \A u \in Nodes(n) :
        /\ par[u] \in Nodes(n)
        /\ LET r == Ancestor(u, par, n - 1) IN r \in Nodes(n) /\ par[r] = r

RootOf(n, u, par) == Ancestor(u, par, n - 1)

\* the nodes findSet(u) passes through
RECURSIVE FindPath(_, _)
FindPath(u, par) == IF par[u] = u THEN {u} ELSE {u} \cup FindPath(par[u], par)

\* forest and ranks of a union-find state
ForestWithRanks(n, par, rk) ==
    /\ IsForest(n, par)
    /\ \A u \in Nodes(n) : par[u] # u => rk[u] < rk[par[u]]

\* findSet(u) = findSet(v) exactly when the edges of E join u and v
SameSetIffJoined(n, par, E) ==
    \A u \in Nodes(n) :
        LET C == Component(u, E)
            ru == findSet(u, par).root
        IN \A v \in Nodes(n) : (ru = findSet(v, par).root) <=> v \in C

\* findSet(u) returns the root of u, keeps the root of every node and only
\* re-points the nodes it visited to that root
FindSetOnlyCompresses(n, u, par) ==
    LET f == findSet(u, par)
    IN /\ f.root = RootOf(n, u, par)
       /\ \A w \in Nodes(n) :
             /\ RootOf(n, w, f.parent) = RootOf(n, w, par)
             /\ f.parent[w] # par[w] =>
                   (w \in FindPath(u, par) /\ f.parent[w] = f.root)

UnionFindStarted == pc \in MstPcs \ {"mst_init"} \/ pc = "tsp_init"

(* C22: once the union-find arrays are initialised, in every state of Task 1 *)
(* and after each findSet call of an iteration, the parent array is a        *)
(* forest, a non-root node has a rank strictly below its parent's, and two   *)
(* nodes have the same findSet result exactly when the accepted edges join   *)
(* them; a findSet call keeps every node's root and only re-points nodes on  *)
(* the path it walked to their root.                                         *)
C22_UnionFindInvariants ==
    UnionFindStarted =>
        /\ ForestWithRanks(N, parent, rankArr)
        /\ SameSetIffJoined(N, parent, SeqRange(result))
        /\ \A u \in Nodes(N) :
              /\ FindSetOnlyCompresses(N, u, parent)
              /\ LET fu == findSet(u, parent).parent
                 IN /\ ForestWithRanks(N, fu, rankArr)
                    /\ fu # parent =>
                          /\ SameSetIffJoined(N, fu, SeqRange(result))
                          /\ \A v \in Nodes(N) :
                                /\ FindSetOnlyCompresses(N, v, fu)
                                /\ ForestWithRanks(N, findSet(v, fu).parent, rankArr)

\* the next candidate touches a node two pointers below its root, so that
\* findSet re-points it
C22_Witness ==
    /\ InAcceptLoop
    /\ i < Len(edges) /\ Len(result) < N - 1
    /\ LET u == edges[i + 1].u
       IN /\ parent[parent[u]] # parent[u]
          /\ findSet(u, parent).parent # parent
          /\ rankArr[RootOf(N, u, parent)] = 2

----------------------------------------------------------------------------
(* Task 2, the call tsp(1, 0) step by step.  tspStack holds one frame per    *)
(* call of tsp that is inside its for loop: the arguments mask and pos, the  *)
(* loop variable city and the locals ans and found.  A call is one of: the   *)
(* base case, a return of the stored entry, or an evaluation of the loop.    *)

\* five-node inputs of the step-by-step run: complete tables, tables with
\* one pair set to 0, and the all-zero matrix
MemoInputs ==
    {DeepDist(UpperPairs(DeepN) \ gap, turn) :
        gap \in {{}} \cup {{p} : p \in UpperPairs(DeepN)}, turn \in 0 .. MaxW}
    \cup {ZeroMatrix(DeepN)}

InitMemo ==
    /\ OthersIdle
    /\ pc = "tsp_init"
    /\ \/ \E n \in 1 .. MaxN : \E d \in DistInputs(n, {1}) : Loaded(n, d, ZeroMatrix(n))
       \/ Loaded(ScenarioN, ScenarioDist, ScenarioCap)
       \/ \E d \in MemoInputs : Loaded(DeepN, d, ZeroMatrix(DeepN))

Top == tspStack[Len(tspStack)]
Pop == SubSeq(tspStack, 1, Len(tspStack) - 1)
TopWith(f) == [tspStack EXCEPT ![Len(tspStack)] = f]

memoFrame == <<otherVars, inputVars, mstVars, VISITED_ALL, flowVars, out>>

\* main: int minCost = tsp(1, 0);
TspBegin ==
    /\ pc = "tsp_solve"
    /\ tspCall' = [mask |-> 1, pos |-> 0]
    /\ pc' = "tsp_call"
    /\ UNCHANGED <<memoFrame, DP, minCost, mask, pos, path, tspStack, tspRet, err>>

\* if (mask == VISITED_ALL) return distanceMatrix[pos][0];
TspBase ==
    /\ pc = "tsp_call"
    /\ tspCall.mask = VISITED_ALL
    /\ tspRet' = distanceMatrix[tspCall.pos][0]
    /\ pc' = "tsp_ret"
    /\ UNCHANGED <<memoFrame, DP, minCost, mask, pos, path, tspStack, tspCall, err>>

\* if (DP[mask][pos] != -1) return DP[mask][pos];
TspStored ==
    /\ pc = "tsp_call"
    /\ tspCall.mask # VISITED_ALL
    /\ DP[tspCall.mask][tspCall.pos] # -1
    /\ tspRet' = DP[tspCall.mask][tspCall.pos]
    /\ pc' = "tsp_ret"
    /\ UNCHANGED <<memoFrame, DP, minCost, mask, pos, path, tspStack, tspCall, err>>

\* int ans = INT_MAX; bool found = false; for (int city = 0; ...
TspEvaluate ==
    /\ pc = "tsp_call"
    /\ tspCall.mask # VISITED_ALL
    /\ DP[tspCall.mask][tspCall.pos] = -1
    /\ tspStack' = Append(tspStack, [mask |-> tspCall.mask, pos |-> tspCall.pos,
                                     city |-> 0, ans |-> INT_MAX, found |-> FALSE])
    /\ pc' = "tsp_loop"
    /\ UNCHANGED <<memoFrame, DP, minCost, mask, pos, path, tspCall, tspRet, err>>

\* an iteration for a city that is in the mask
TspSkipCity ==
    /\ pc = "tsp_loop"
    /\ Top.city < N
    /\ HasBit(Top.mask, Top.city)
    /\ tspStack' = TopWith([Top EXCEPT !.city = Top.city + 1])
    /\ UNCHANGED <<memoFrame, pc, DP, minCost, mask, pos, path, tspCall, tspRet, err>>

\* an iteration for a city outside the mask: tsp(mask | (1 << city), city)
TspRecurse ==
    /\ pc = "tsp_loop"
    /\ Top.city < N
    /\ ~HasBit(Top.mask, Top.city)
    /\ tspCall' = [mask |-> SetBit(Top.mask, Top.city), pos |-> Top.city]
    /\ pc' = "tsp_call"
    /\ UNCHANGED <<memoFrame, DP, minCost, mask, pos, path, tspStack, tspRet, err>>

\* the recursive call has returned: newAns, the comparison, ++city
TspResume ==
    /\ pc = "tsp_ret"
    /\ tspStack # <<>>
    /\ LET newAns == distanceMatrix[Top.pos][Top.city] + tspRet
       IN tspStack' = TopWith(
              IF newAns < Top.ans
              THEN [Top EXCEPT !.ans = newAns, !.found = TRUE, !.city = Top.city + 1]
              ELSE [Top EXCEPT !.city = Top.city + 1])
    /\ pc' = "tsp_loop"
    /\ UNCHANGED <<memoFrame, DP, minCost, mask, pos, path, tspCall, tspRet, err>>

\* Variant of TspLoopEnd that returns ans without storing it.
TspLoopEnd_NoStore ==
    /\ pc = "tsp_loop"
    /\ Top.city >= N
    /\ IF ~Top.found
       THEN /\ Throw(MsgNoPath)
            /\ tspStack' = <<>>
            /\ UNCHANGED <<tspCall, tspRet>>
       ELSE /\ tspRet' = Top.ans
            /\ tspCall' = [mask |-> Top.mask, pos |-> Top.pos]
            /\ tspStack' = Pop
            /\ pc' = "tsp_ret"
            /\ UNCHANGED err
    /\ UNCHANGED <<memoFrame, DP, minCost, mask, pos, path>>

\* after the loop: throw if nothing was found, else DP[mask][pos] = ans; return ans
TspLoopEnd ==
    /\ pc = "tsp_loop"
    /\ Top.city >= N
    /\ IF ~Top.found
       THEN /\ Throw(MsgNoPath)
            /\ tspStack' = <<>>
            /\ UNCHANGED <<DP, tspCall, tspRet>>
       ELSE /\ DP' = [DP EXCEPT ![Top.mask][Top.pos] = Top.ans]
            /\ tspRet' = Top.ans
            /\ tspCall' = [mask |-> Top.mask, pos |-> Top.pos]
            /\ tspStack' = Pop
            /\ pc' = "tsp_ret"
            /\ UNCHANGED err
    /\ UNCHANGED <<memoFrame, minCost, mask, pos, path>>

\* tsp(1, 0) has returned to main
TspFinish ==
    /\ pc = "tsp_ret"
    /\ tspStack = <<>>
    /\ minCost' = tspRet
    /\ mask' = 1
    /\ pos' = 0
    /\ path' = <<0>>
    /\ pc' = "tsp_walk"
    /\ UNCHANGED <<memoFrame, DP, tspStack, tspCall, tspRet, err>>

NextMemo ==
    \/ TspInit
    \/ TspBegin
    \/ TspBase
    \/ TspStored
    \/ TspEvaluate
    \/ TspSkipCity
    \/ TspRecurse
    \/ TspResume
    \/ TspLoopEnd
    \/ TspFinish

SpecMemo == InitMemo /\ [][NextMemo]_vars

\* the table as TspInit leaves it
UnsetTable == [m \in 0 .. Pow2(N) - 1 |-> [c \in Nodes(N) |-> -1]]

\* The step-by-step run ends with the value and the table of tsp(1, 0).
StepwiseAgreesWithTsp ==
    pc = "tsp_walk" =>
        LET r == tsp(1, 0, UnsetTable)
        IN ~r.thrown /\ minCost = r.val /\ DP = r.DP

\* a call of tsp has just returned a value
CallReturned == pc = "tsp_ret"

\* the states (mask, pos) whose for loop is running
OnStack == {<<tspStack[k].mask, tspStack[k].pos>> : k \in 1 .. Len(tspStack)}

\* steps of the call protocol
CallAnswered == pc = "tsp_call" /\ pc' = "tsp_ret"
LoopEntered == pc = "tsp_call" /\ pc' = "tsp_loop"
LoopLeft == pc = "tsp_loop" /\ pc' = "tsp_ret"

----------------------------------------------------------------------------
(* The reconstruction walk against the DP fill *)

\* the walk is at the head of its while loop with a city still to choose
WalkChoosing == pc = "tsp_walk" /\ mask # VISITED_ALL

Unvisited == {city \in Nodes(N) : ~HasBit(mask, city)}

\* what the walk adds up for `city`
WalkCost(city) == distanceMatrix[pos][city] + DP[SetBit(mask, city)][city]

\* what the for loop of tsp(mask, pos) adds up for `city`
FillCost(city) == distanceMatrix[pos][city] + tsp(SetBit(mask, city), city, DP).val

\* the lowest city whose cost is the least one
FirstMinimiser(cost(_)) ==
    CHOOSE c \in Unvisited :
        /\ \A other \in Unvisited : cost(c) <= cost(other)
        /\ \A other \in Unvisited : other < c => cost(other) > cost(c)

(* C24 (as claimed): at every step of the walk, the last one included, the   *)
(* walk adds up for each unvisited city the value the DP fill added up, the  *)
(* least of these values is the DP cost of (mask, pos), and the city chosen  *)
(* is the lowest-index city with the least value of the fill.                *)
C24_WalkUsesCostsOfTheFill ==
    WalkChoosing =>
        /\ \A city \in Unvisited : WalkCost(city) = FillCost(city)
        /\ WalkCost(FirstMinimiser(WalkCost)) = DP[mask][pos]
        /\ BestCityFrom(0, -1, INT_MAX) = FirstMinimiser(FillCost)

\* the same, for the steps other than the last one
WalkAgreesBeforeLastStep ==
    (WalkChoosing /\ Cardinality(Unvisited) > 1) =>
        /\ \A city \in Unvisited : WalkCost(city) = FillCost(city)
        /\ WalkCost(FirstMinimiser(WalkCost)) = DP[mask][pos]
        /\ BestCityFrom(0, -1, INT_MAX) = FirstMinimiser(FillCost)

\* at the last step the walk reads the unset entry of the full mask
WalkLastStepReadsUnset ==
    (WalkChoosing /\ Cardinality(Unvisited) = 1) =>
        \A city \in Unvisited :
            /\ DP[SetBit(mask, city)][city] = -1
            /\ WalkCost(city) = distanceMatrix[pos][city] - 1
            /\ BestCityFrom(0, -1, INT_MAX) = city

----------------------------------------------------------------------------
(* The augmentation step against the path that bfs recorded *)

NoEdge == <<-1, -1>>

\* the edges <<pf[v], v>> met when following pf from v for at most k steps
\* until node 0; NoEdge is among them if node 0 is not reached
RECURSIVE EdgesBack(_, _, _)
EdgesBack(pf, v, k) ==
    IF v = 0 THEN {}
    ELSE IF k = 0 \/ pf[v] \notin Nodes(N) THEN {NoEdge}
    ELSE {<<pf[v], v>>} \cup EdgesBack(pf, pf[v], k - 1)

\* the path from the source to the sink that pf records
PathEdges(pf) == EdgesBack(pf, N - 1, N - 1)

Reversed(P) == {<<e[2], e[1]>> : e \in P}

\* a step of the loop that found a path
Augmenting == pc = "flow_loop" /\ pc' = "flow_loop"

(* C25: whenever bfs(0, N-1) returns true, following parentFlow from the     *)
(* sink reaches the source within N-1 steps over edges of positive residual  *)
(* capacity; the step subtracts the least residual capacity of that path,    *)
(* which is at least 1, from every edge of the path, adds it to every        *)
(* reverse edge, leaves every other residual entry alone and adds it to the  *)
(* total flow.                                                               *)
C25_AugmentationFollowsRecordedPath ==
    [][Augmenting =>
        LET P == PathEdges(parentFlow')
        IN /\ NoEdge \notin P
           /\ P # {}
           /\ Cardinality(P) <= N - 1
           /\ \A e \in P : residual[e[1]][e[2]] > 0
           /\ LET f == MinOf({residual[e[1]][e[2]] : e \in P})
              IN /\ f >= 1
                 /\ maxFlow' = maxFlow + f
                 /\ P \cap Reversed(P) = {}
                 /\ \A u, v \in Nodes(N) :
                       residual'[u][v] =
                          IF <<u, v>> \in P THEN residual[u][v] - f
                          ELSE IF <<v, u>> \in P THEN residual[u][v] + f
                          ELSE residual[u][v]]_vars

\* after an augmentation over a path of more than one edge: one edge of the
\* path is used up, another keeps capacity, the reverse edges have gained,
\* and it was not the first augmentation
C25_Witness ==
    /\ pc = "flow_loop"
    /\ parentFlow[N - 1] # 0
    /\ LET P == PathEdges(parentFlow)
       IN /\ NoEdge \notin P
          /\ Cardinality(P) > 1
          /\ \E e \in P : residual[e[1]][e[2]] = 0
          /\ \E e \in P : residual[e[1]][e[2]] > 0
          /\ \A e \in P : residual[e[2]][e[1]] > capacityMatrix[e[2]][e[1]]
          /\ \E e \in P : maxFlow > residual[e[2]][e[1]]

----------------------------------------------------------------------------
(* The search bfs(0, N-1) against reachability in the residual graph *)

\* number of edges of a shortest path to t over edges of positive c, counted
\* from the nodes of `frontier` (k edges away from the source); -1 if none
RECURSIVE HopsFrom(_, _, _, _, _)
HopsFrom(c, seen, frontier, t, k) ==
    IF t \in frontier THEN k
    ELSE IF frontier = {} THEN -1
    ELSE LET next == {b \in Nodes(N) \ seen : \E a \in frontier : c[a][b] > 0}
         IN HopsFrom(c, seen \cup next, next, t, k + 1)

Hops(c, s, t) == HopsFrom(c, {s}, {s}, t, 0)

\* the search is about to be made
Searching == pc = "flow_loop"

(* C26: bfs(0, N-1) returns true exactly when the sink differs from the      *)
(* source and is reachable from it over edges of positive residual capacity; *)
(* the path then recorded in parentFlow runs over such edges and has the     *)
(* fewest edges of all such paths; no node is put in the queue twice, so the *)
(* queue holds at most N entries.                                            *)
C26_BfsFindsShortestAugmentingPath ==
    Searching =>
        LET b == bfs(0, N - 1)
            P == PathEdges(b.parentFlow)
        IN /\ b.found <=> (N - 1 # 0 /\ (N - 1) \in ReachFrom(N, residual, {0}))
           /\ b.found =>
                 /\ NoEdge \notin P
                 /\ \A e \in P : residual[e[1]][e[2]] > 0
                 /\ Cardinality(P) = Hops(residual, 0, N - 1)
           /\ Len(b.queue) <= N
           /\ Cardinality(SeqRange(b.queue)) = Len(b.queue)
           /\ b.queue[1] = 0
           /\ b.parentFlow[0] = -1

\* after an augmentation the sink is still reachable, now only by a path of
\* more edges than a direct edge that is used up, and every node is queued
C26_Witness ==
    /\ Searching
    /\ N = MaxN
    /\ maxFlow > 0
    /\ capacityMatrix[0][N - 1] > 0 /\ residual[0][N - 1] = 0
    /\ LET b == bfs(0, N - 1)
       IN /\ b.found
          /\ Cardinality(PathEdges(b.parentFlow)) = N - 1
          /\ Len(b.queue) = N

----------------------------------------------------------------------------
(* The greedy call of the change-making program *)

Descending(den, n) == \A k \in 0 .. n - 2 : den[k] >= den[k + 1]

\* den holds the values of other, each as often
SameValues(den, other, n) ==
    \A x \in 1 .. MaxDenom :
        Cardinality({k \in 0 .. n - 1 : den[k] = x})
            = Cardinality({k \in 0 .. n - 1 : other[k] = x})

\* the values read, largest first
ReadLargestFirst ==
    CHOOSE d \in [0 .. numDenominations - 1 -> 1 .. MaxDenom] :
        /\ Descending(d, numDenominations)
        /\ SameValues(d, denominationsRead, numDenominations)

\* what is left of `amount` after as many coins as fit of each of d[0..k-1]
RECURSIVE LeftAfter(_, _, _)
LeftAfter(d, k, amount) ==
    IF k = 0 THEN amount ELSE LeftAfter(d, k - 1, amount) % d[k - 1]

\* coins per denomination when every denomination, largest first, is used as
\* often as it fits
LargestFirstCounts ==
    [k \in 1 .. numDenominations |->
        LeftAfter(ReadLargestFirst, k - 1, paymentAmount - productPrice)
            \div ReadLargestFirst[k - 1]]

GreedyCalled == coinPc = "greedy"
GreedyReturned == coinPc = "done"

(* C27: whatever the order in which the denominations were read, when main   *)
(* calls greedyChangeMaking the array holds the values read in descending    *)
(* order, left so by dynamicChangeMaking, and the counts the greedy call     *)
(* prints are those of taking the largest denominations first.               *)
C27_GreedySeesDenominationsSorted ==
    /\ (GreedyCalled \/ GreedyReturned) =>
          /\ Descending(denominations, numDenominations)
          /\ SameValues(denominations, denominationsRead, numDenominations)
          /\ denominations = ReadLargestFirst
    /\ GreedyReturned =>
          /\ Len(coinOut) = 2
          /\ coinOut[2] = LargestFirstCounts

\* the denominations were read smallest first, and taking the largest first
\* paid the change with other coins than the dynamic call
C27_Witness ==
    /\ GreedyReturned
    /\ numDenominations = MaxDenoms
    /\ \A k \in 0 .. numDenominations - 2 :
          denominationsRead[k] < denominationsRead[k + 1]
    /\ coinOut[2] # coinOut[1]
    /\ coinOut[2][1] > 0

----------------------------------------------------------------------------
(* The residual matrix against the capacities *)

\* residual has been initialised
InFlowLoop == pc \in {"flow_loop", "voronoi"}

\* capacityMatrix[0][v] - residual[0][v], summed over v = k .. N-1
RECURSIVE SourceOutflowFrom(_)
SourceOutflowFrom(k) ==
    IF k >= N THEN 0
    ELSE (capacityMatrix[0][k] - residual[0][k]) + SourceOutflowFrom(k + 1)

NetFlowOutOfSource == SourceOutflowFrom(0)

(* C28: in every state of the augmentation loop every residual entry is      *)
(* non-negative, residual[u][v] + residual[v][u] is what the capacities of   *)
(* the two directions add up to, for every pair of nodes, and the total      *)
(* flow is the net flow that capacity minus residual sends out of node 0.    *)
C28_ResidualConservesCapacity ==
    InFlowLoop =>
        /\ \A u, v \in Nodes(N) :
              /\ residual[u][v] >= 0
              /\ residual[u][v] + residual[v][u]
                    = capacityMatrix[u][v] + capacityMatrix[v][u]
        /\ maxFlow = NetFlowOutOfSource

\* several augmentations have been made and a reverse edge holds more than
\* its capacity
C28_Witness ==
    /\ pc = "flow_loop"
    /\ N = MaxN
    /\ maxFlow > MaxCap
    /\ \E u, v \in Nodes(N) : residual[v][u] > capacityMatrix[v][u] /\ residual[u][v] > 0
    /\ \E v \in Nodes(N) : capacityMatrix[v][0] > 0

----------------------------------------------------------------------------
(* Termination of the probing loop of findStringInHashTable *)

\* The program as a sequential program: main() always takes its next step.
SpecHashFair == InitHash /\ [][NextHash]_vars /\ WF_vars(NextHash)

Slots == 0 .. TableSize - 1

\* the slot at which the lookup of the current line started
HomeIndex == computeHashValue(inputString) % TableSize

Probing == hashPc = "probe"
HasEmptySlot == \E k \in Slots : hashTable[k] = EMPTY_SLOT
IsStored(str) == \E k \in Slots : hashTable[k] = str
StoredStrings == {hashTable[k] : k \in Slots} \ {EMPTY_SLOT}

\* a lookup of a string that is not stored, in a table without empty slot
ProbingFullTable == Probing /\ ~HasEmptySlot /\ ~IsStored(inputString)

----------------------------------------------------------------------------
(* The heap of the min-heap Dijkstra program between its operations *)

\* the nodes that are in the heap, and those that extractMin has returned
InHeap == {heap[k] : k \in 1 .. heapSize}
Extracted == SeqRange(extracted)

\* main() is between two heap operations
HeapInUse == heapPc \in {"loop", "done"}

\* the edge about to be relaxed leads to a node that has left the heap
RelaxingTowardsExtracted ==
    heapPc = "loop" /\ edge # <<>> /\ Head(edge).to \in Extracted

(* C30: after every insert, extractMin and decrease-key the heap knows the   *)
(* position of each of its nodes, heapPos[heap[i]] = i, and no node is       *)
(* nearer than its parent, dist[heap[i/2]] <= dist[heap[i]]; a node is       *)
(* inserted once at most: a node that has a position never goes back to -1,  *)
(* a node that has left the heap never enters it again, is extracted once,   *)
(* and an edge towards it changes neither dist nor the heap; heapSize never  *)
(* exceeds the number of nodes.                                              *)
C30_HeapStaysWellFormed ==
    /\ [](HeapInUse =>
            /\ heapSize >= 0 /\ heapSize <= Cardinality(HeapNodes)
            /\ Cardinality(InHeap) = heapSize
            /\ \A k \in 1 .. heapSize : heapPos[heap[k]] = k
            /\ \A k \in 2 .. heapSize : dist[heap[k \div 2]] <= dist[heap[k]]
            /\ Cardinality(Extracted) = Len(extracted)
            /\ InHeap \cap Extracted = {}
            /\ \A v \in HeapNodes : heapPos[v] # -1 <=> v \in InHeap \cup Extracted)
    /\ [][\A v \in HeapNodes :
            /\ heapPos[v] # -1 => heapPos'[v] # -1
            /\ (v \in InHeap' /\ v \notin InHeap) => heapPos[v] = -1]_vars
    /\ [][RelaxingTowardsExtracted => UNCHANGED <<dist, heap, heapPos, heapSize>>]_vars

\* two nodes have left the heap, three are in it, not all equally far, and
\* the edge about to be relaxed leads back to a node that has left the heap
C30_Witness ==
    /\ RelaxingTowardsExtracted
    /\ Len(extracted) >= 2
    /\ heapSize >= 3
    /\ \E k \in 2 .. heapSize : dist[heap[k]] > dist[heap[1]]
    /\ \E v \in Extracted : heapPos[v] = 1

=============================================================================
